---- MODULE Spec2Model ----
(***************************************************************************)
(* Chip: webhook-driven chatbot.  Model of the Loop adapter's webhook      *)
(* normalization, the in-memory deduplication / rate-limit cache and the   *)
(* webhook reply pipeline of app/routers/messaging.py.                     *)
(*                                                                         *)
(* Strings are sequences of tokens (a token stands for a run of            *)
(* characters); JSON values are tagged records.  Time is in whole seconds. *)
(***************************************************************************)
EXTENDS Integers, Sequences, FiniteSets, TLC

(***************************************************************************)
(* Bounds of the model.                                                    *)
(***************************************************************************)
MaxHandlers == 2
MaxTicks == 2

Handlers == 1..MaxHandlers

(***************************************************************************)
(* JSON values and strings.                                                *)
(***************************************************************************)
NoneV == [t |-> "none"]
Str(s) == [t |-> "str", v |-> s]
Num(s) == [t |-> "num", v |-> s]
Dict(d) == [t |-> "dict", v |-> d]

IsStr(x) == x.t = "str"
IsDict(x) == x.t = "dict"

\* Python truthiness of a JSON value.
Truthy(x) ==
    CASE x.t = "none" -> FALSE
      [] x.t = "str" -> x.v # <<>>
      [] x.t = "num" -> x.v # <<"0">>
      [] x.t = "dict" -> DOMAIN x.v # {}

\* dict.get(key) with the default None; d is a TLA+ function over key names.
Get(d, k) == IF k \in DOMAIN d THEN d[k] ELSE NoneV

\* Python's `a or b`.
OrElse(a, b) == IF Truthy(a) THEN a ELSE b

\* str(x) of a truthy non-string value.
PyStr(x) ==
    CASE x.t = "num" -> x.v
      [] x.t = "dict" -> <<"{dict}">>
      [] OTHER -> <<"None">>

\* str.lower() and the character classes used by the text cleanup.
LowerTok(c) ==
    CASE c = "Hi" -> "hi"
      [] c = "Chip" -> "chip"
      [] c = "TEXT" -> "text"
      [] c = "Audio" -> "audio"
      [] c = "LIKE" -> "like"
      [] c = "Chip@AI.imsg.bot" -> "chip@ai.imsg.bot"
      [] c = "Submission" -> "submission"
      [] c = "Challege" -> "challege"
      [] c = ".JPEG" -> ".jpeg"
      [] c = ".PNG" -> ".png"
      [] OTHER -> c

Lower(s) == [i \in 1..Len(s) |-> LowerTok(s[i])]

IsSpace(c) == c \in {" ", "\t", "\n"}
IsControl(c) == c \in {"<ctl>"}
IsPunct(c) == c \in {".", ",", "!", "?", ";", ":"}

RECURSIVE LStrip(_)
LStrip(s) == IF s # <<>> /\ IsSpace(Head(s)) THEN LStrip(Tail(s)) ELSE s

RECURSIVE RStrip(_)
RStrip(s) ==
    IF s # <<>> /\ IsSpace(s[Len(s)]) THEN RStrip(SubSeq(s, 1, Len(s) - 1)) ELSE s

\* str.strip()
Strip(s) == RStrip(LStrip(s))

StartsWith(s, p) == Len(s) >= Len(p) /\ SubSeq(s, 1, Len(p)) = p

(***************************************************************************)
(* Text cleanup (app/utils/spelling.py).  Word tokens in the inputs are    *)
(* always separated by whitespace or punctuation tokens, so a word token   *)
(* is a whole word for the \b...\b patterns.                               *)
(***************************************************************************)
RECURSIVE RemoveControl(_)
RemoveControl(s) ==
    IF s = <<>> THEN <<>>
    ELSE IF IsControl(Head(s)) THEN RemoveControl(Tail(s))
    ELSE <<Head(s)>> \o RemoveControl(Tail(s))

\* re.sub(r'\s+', ' ', s)
RECURSIVE CollapseSpaces(_)
CollapseSpaces(s) ==
    IF s = <<>> THEN <<>>
    ELSE IF IsSpace(Head(s)) THEN <<" ">> \o CollapseSpaces(LStrip(s))
    ELSE <<Head(s)>> \o CollapseSpaces(Tail(s))

\* re.sub(r'\s+([.,!?;:])', r'\1', s)
RECURSIVE SpaceBeforePunct(_)
SpaceBeforePunct(s) ==
    IF s = <<>> THEN <<>>
    ELSE IF IsSpace(Head(s)) /\ LStrip(s) # <<>> /\ IsPunct(Head(LStrip(s)))
         THEN SpaceBeforePunct(LStrip(s))
    ELSE <<Head(s)>> \o SpaceBeforePunct(Tail(s))

\* re.sub(r'([.,!?;:])\s*([.,!?;:])', r'\1 \2', s)
RECURSIVE PunctPairs(_)
PunctPairs(s) ==
    IF s = <<>> THEN <<>>
    ELSE IF IsPunct(Head(s)) /\ LStrip(Tail(s)) # <<>> /\ IsPunct(Head(LStrip(Tail(s))))
         THEN <<Head(s), " ", Head(LStrip(Tail(s)))>> \o PunctPairs(Tail(LStrip(Tail(s))))
    ELSE <<Head(s)>> \o PunctPairs(Tail(s))

normalize_text(text) ==
    IF text = <<>> THEN <<>>
    ELSE PunctPairs(SpaceBeforePunct(CollapseSpaces(Strip(text))))

\* The corrections table, matched ignoring case.
FixTok(c) ==
    CASE LowerTok(c) = "challege" -> "challenge"
      [] LowerTok(c) = "intership" -> "internship"
      [] LowerTok(c) = "comunity" -> "community"
      [] OTHER -> c

fix_common_typos(text) == [i \in 1..Len(text) |-> FixTok(text[i])]

correct_spelling(text) ==
    IF text = <<>> THEN <<>> ELSE fix_common_typos(normalize_text(text))

\* Variant: the text is used as it was received.
extract_clean_message_raw(text) ==
    text

extract_clean_message(text) ==
    IF text = <<>> THEN <<>> ELSE correct_spelling(Strip(RemoveControl(text)))

(***************************************************************************)
(* Enumerations (app/types/enums.py) and NormalizedEvent.                  *)
(***************************************************************************)
MessageType == {"text", "reaction", "audio", "attachments", "sticker", "location"}

ReactionType ==
    {"love", "like", "dislike", "laugh", "exclaim", "question",
     "-love", "-like", "-dislike", "-laugh", "-exclaim", "-question", "unknown"}

\* Variant: the value is compared as it is written.
ParseEnum_exact(raw, values) ==
    IF IsStr(raw) /\ Len(raw.v) = 1 /\ raw.v[1] \in values
    THEN Str(<<raw.v[1]>>)
    ELSE NoneV

\* Case-insensitive parse of an enum field: the member, or None.
ParseEnum(raw, values) ==
    IF IsStr(raw) /\ Len(raw.v) = 1 /\ LowerTok(raw.v[1]) \in values
    THEN Str(<<LowerTok(raw.v[1])>>)
    ELSE NoneV

\* pydantic accepts a str or None for an Optional[str] field and rejects
\* any other value with a ValidationError.
IsOptStr(x) == x.t \in {"none", "str"}

Raised == [ok |-> FALSE]

NormalizedEvent(alert_type, text, recipient, message_id, group_id, message_type, reaction) ==
    IF IsOptStr(alert_type) /\ IsStr(text) /\ IsOptStr(recipient)
       /\ IsOptStr(message_id) /\ IsOptStr(group_id)
    THEN [ok |-> TRUE,
          ev |-> [alert_type |-> alert_type, text |-> text.v, recipient |-> recipient,
                  message_id |-> message_id, group_id |-> group_id,
                  message_type |-> message_type, reaction |-> reaction]]
    ELSE Raised

\* `if not isinstance(text, str): text = str(text) if text else ""`
CoerceText(x) ==
    IF IsStr(x) THEN x ELSE IF Truthy(x) THEN Str(PyStr(x)) ELSE Str(<<>>)

\* `if not isinstance(x, str): x = None`
StrOrNone(x) == IF IsStr(x) THEN x ELSE NoneV

\* x if it is a dict, else the empty dict
DictOrEmpty(x) == IF IsDict(x) THEN x.v ELSE <<>>

\* LoopClient.normalize_event, native shape (truthy alert_type).
NormalizeNative(body) ==
    LET group == Get(body, "group")
        group_id == IF IsDict(group) THEN Get(group.v, "group_id")
                    ELSE IF IsStr(group) THEN group ELSE NoneV
        message_type == ParseEnum(Get(body, "message_type"), MessageType)
        reaction == ParseEnum(Get(body, "reaction"), ReactionType)
        text == CoerceText(OrElse(OrElse(Get(body, "text"), Get(body, "content")),
                                  Get(body, "message")))
        rcp1 == OrElse(Get(body, "recipient"), Get(body, "from"))
        rcp2 == IF IsDict(rcp1)
                THEN OrElse(Get(rcp1.v, "address"), Get(rcp1.v, "recipient"))
                ELSE rcp1
        message_id == OrElse(Get(body, "message_id"), Get(body, "id"))
    IN  NormalizedEvent(Get(body, "alert_type"), text, StrOrNone(rcp2),
                        StrOrNone(message_id), group_id, message_type, reaction)

\* Variant: a `from` object is not unwrapped to its address.
NormalizeInternal_wrapped(body) ==
    LET data == DictOrEmpty(Get(body, "data"))
        message == DictOrEmpty(Get(data, "message"))
        text == CoerceText(OrElse(OrElse(Get(message, "text"), Get(data, "text")),
                                  Get(body, "text")))
        from_field == Get(message, "from")
        rcp2 == OrElse(OrElse(from_field, Get(data, "from")), Get(body, "from"))
        message_id == OrElse(OrElse(Get(message, "id"), Get(data, "id")), Get(body, "id"))
        group_id == OrElse(OrElse(Get(data, "conversationId"), Get(data, "group_id")),
                           Get(body, "group_id"))
    IN  NormalizedEvent(OrElse(Get(body, "event"), Get(body, "alert_type")), text,
                        StrOrNone(rcp2), StrOrNone(message_id), StrOrNone(group_id),
                        NoneV, NoneV)

\* LoopClient.normalize_event, internal testing shape.
NormalizeInternal(body) ==
    LET data == DictOrEmpty(Get(body, "data"))
        message == DictOrEmpty(Get(data, "message"))
        text == CoerceText(OrElse(OrElse(Get(message, "text"), Get(data, "text")),
                                  Get(body, "text")))
        from_field == Get(message, "from")
        rcp1 == IF IsDict(from_field) THEN Get(from_field.v, "address")
                ELSE IF IsStr(from_field) THEN from_field ELSE NoneV
        rcp2 == OrElse(OrElse(rcp1, Get(data, "from")), Get(body, "from"))
        message_id == OrElse(OrElse(Get(message, "id"), Get(data, "id")), Get(body, "id"))
        group_id == OrElse(OrElse(Get(data, "conversationId"), Get(data, "group_id")),
                           Get(body, "group_id"))
    IN  NormalizedEvent(OrElse(Get(body, "event"), Get(body, "alert_type")), text,
                        StrOrNone(rcp2), StrOrNone(message_id), StrOrNone(group_id),
                        NoneV, NoneV)

normalize_event(body) ==
    IF Truthy(Get(body, "alert_type")) THEN NormalizeNative(body)
    ELSE NormalizeInternal(body)

\* str(x) of any value
StrOf(x) == IF IsStr(x) THEN x.v ELSE PyStr(x)

\* LoopClient.normalize_event of any JSON value x: a body that is not a
\* dict becomes an event that carries only its text.
LoopClient_normalize_event(x) ==
    IF IsDict(x) THEN normalize_event(x.v)
    ELSE NormalizedEvent(NoneV, Str(IF Truthy(x) THEN StrOf(x) ELSE <<>>), NoneV, NoneV,
                         NoneV, NoneV, NoneV)

\* TwilioClient.normalize_event of any JSON value x.  `.get("address")` on
\* a truthy `from` that is not a dict raises AttributeError.
TwilioClient_normalize_event(x) ==
    LET body == DictOrEmpty(x)
        text == OrElse(OrElse(Get(body, "Body"), Get(body, "text")), Str(<<>>))
        from_field == OrElse(Get(body, "from"), Dict(<<>>))
        recipient == IF Truthy(Get(body, "From")) THEN Get(body, "From")
                     ELSE Get(from_field.v, "address")
        message_id == OrElse(Get(body, "MessageSid"), Get(body, "message_id"))
        alert_type == OrElse(Get(body, "SmsStatus"), Get(body, "event"))
    IN  IF ~Truthy(Get(body, "From")) /\ ~IsDict(from_field) THEN Raised
        ELSE NormalizedEvent(alert_type, text, recipient, message_id, NoneV, NoneV, NoneV)

(***************************************************************************)
(* Deduplication cache (app/routers/messaging.py).  The dict is a set of   *)
(* entries [key, ts].  The 8 hex digits of the md5 digest are modelled     *)
(* collision-free: the digest of a text is the hashed text itself.         *)
(***************************************************************************)
MESSAGE_CACHE_TTL == 3600
RATE_LIMIT_WINDOW == 10

Md5(text) == text

\* `x or sentinel` for an Optional[str] argument
OrSentinel(x, sentinel) == IF Truthy(x) THEN x.v ELSE sentinel

_get_message_key(message_id, recipient, text) ==
    [head |-> OrSentinel(message_id, <<"no-id">>) \o <<"|">>
              \o OrSentinel(recipient, <<"no-recipient">>) \o <<"|">>,
     hash |-> Md5(Lower(Strip(text)))]

\* Variant: the purge stamps the entries it keeps with the current time.
_cleanup_old_messages_refresh(c, t) ==
    {[key |-> e.key, ts |-> t] : e \in {d \in c : ~(t - d.ts > MESSAGE_CACHE_TTL)}}

\* Variant: the entries live for less than the rate-limit window.
_cleanup_old_messages_short(c, t) == {e \in c : ~(t - e.ts > 0)}

\* The cache after _cleanup_old_messages() at time t.
_cleanup_old_messages(c, t) == {e \in c : ~(t - e.ts > MESSAGE_CACHE_TTL)}

\* dict lookup
HasKey(c, key) == \E e \in c : e.key = key
Lookup(c, key) == (CHOOSE e \in c : e.key = key).ts

\* Variant: the window test is `<=`.
_is_message_processed_le(c, t, message_id, recipient, text) ==
    LET c1 == {e \in c : ~(t - e.ts > MESSAGE_CACHE_TTL)}
        key == _get_message_key(message_id, recipient, text)
    IN  HasKey(c1, key) /\ t - Lookup(c1, key) <= RATE_LIMIT_WINDOW

\* The value returned by _is_message_processed at time t (it has purged
\* the cache first).
_is_message_processed(c, t, message_id, recipient, text) ==
    LET c1 == _cleanup_old_messages(c, t)
        key == _get_message_key(message_id, recipient, text)
    IN  HasKey(c1, key) /\ t - Lookup(c1, key) < RATE_LIMIT_WINDOW

\* Variant: the mark is lost.
_mark_message_processed_lost(c, t, message_id, recipient, text) == c

\* The cache after _mark_message_processed at time t.
_mark_message_processed(c, t, message_id, recipient, text) ==
    LET key == _get_message_key(message_id, recipient, text)
    IN  {e \in c : e.key # key} \cup {[key |-> key, ts |-> t]}

(***************************************************************************)
(* Webhook verification (LoopClient.verify_request).  TRUE when the        *)
(* request is accepted, FALSE when PermissionError is raised.              *)
(***************************************************************************)
\* Variant: a request without credentials is let through.
verify_request_open(webhook_auth, authorization_header) ==
    IF webhook_auth = <<>> \/ ~Truthy(authorization_header) THEN TRUE
    ELSE LET provided == authorization_header.v
             stripped == IF StartsWith(provided, <<"Bearer ">>) THEN Tail(provided)
                         ELSE provided
         IN  stripped = webhook_auth

verify_request(webhook_auth, authorization_header) ==
    IF webhook_auth = <<>> THEN TRUE
    ELSE LET provided == IF Truthy(authorization_header) THEN authorization_header.v ELSE <<>>
             stripped == IF StartsWith(provided, <<"Bearer ">>) THEN Tail(provided)
                         ELSE provided
         IN  stripped = webhook_auth

\* Variant: the provided token is compared as it is.
TwilioClient_verify_request_raw(webhook_secret, authorization_header) ==
    IF webhook_secret = <<>> THEN TRUE
    ELSE LET provided == IF Truthy(authorization_header) THEN authorization_header.v ELSE <<>>
         IN  provided = webhook_secret

\* TwilioClient.verify_request with TWILIO_WEBHOOK_SECRET
TwilioClient_verify_request(webhook_secret, authorization_header) ==
    IF webhook_secret = <<>> THEN TRUE
    ELSE LET provided == IF Truthy(authorization_header) THEN authorization_header.v ELSE <<>>
             stripped == IF StartsWith(provided, <<"Bearer ">>) THEN Tail(provided)
                         ELSE provided
         IN  stripped = webhook_secret

(***************************************************************************)
(* Adapter registry (app/adapters/registry.py).  The class attribute       *)
(* _registry is a function from the registered names to adapter classes.   *)
(***************************************************************************)
\* Variant: a name already registered keeps its class.
AdapterRegistry_register_keep(registry, name, adapter_cls) ==
    [n \in DOMAIN registry \cup {name} |->
        IF n \in DOMAIN registry THEN registry[n] ELSE adapter_cls]

AdapterRegistry_register(registry, name, adapter_cls) ==
    [n \in DOMAIN registry \cup {name} |-> IF n = name THEN adapter_cls ELSE registry[n]]

\* _registry once the module is imported: "loop", then the optional
\* Twilio adapter, which this repository ships.
_registry ==
    AdapterRegistry_register([n \in {"loop"} |-> "LoopClient"], "twilio", "TwilioClient")

\* get(name) with `made` instances constructed before it: KeyError for a
\* name without a class, otherwise a newly constructed instance.
AdapterRegistry_get(registry, name, made) ==
    IF name \notin DOMAIN registry
    THEN [name |-> name, raised |-> "KeyError", cls |-> "", id |-> 0]
    ELSE [name |-> name, raised |-> "", cls |-> registry[name], id |-> made + 1]

(***************************************************************************)
(* Inputs: webhook requests.                                               *)
(***************************************************************************)
Secret == <<"inbound-secret">>
\* The bot address when LOOP_SENDER_NAME is not set.
BotSender == <<"chip@ai.imsg.bot">>
RcpA == <<"+15551230000">>
RcpB == <<"+15551239999">>
Inbound == Str(<<"message_inbound">>)

BodyText ==
    [alert_type |-> Inbound, recipient |-> Str(RcpA), text |-> Str(<<"Hi">>),
     message_type |-> Str(<<"text">>), message_id |-> Str(<<"in-1">>)]
\* "Hi Chip" and the same words in another case with more whitespace.
BodyChip ==
    [alert_type |-> Inbound, recipient |-> Str(RcpA), text |-> Str(<<"Hi", " ", "Chip">>),
     message_type |-> Str(<<"text">>), message_id |-> Str(<<"in-1">>)]
BodyChipSpaced ==
    [alert_type |-> Inbound, recipient |-> Str(RcpA),
     text |-> Str(<<" ", "hi", " ", "\t", "Chip", "\n">>),
     message_type |-> Str(<<"text">>), message_id |-> Str(<<"in-1">>)]
BodyTextOther ==
    [alert_type |-> Inbound, recipient |-> Str(RcpA), text |-> Str(<<"Hi">>),
     message_id |-> Str(<<"in-2">>)]
BodyInternal ==
    [event |-> Str(<<"message.created">>),
     data |-> Dict([conversationId |-> Str(<<"conv_123">>),
                    message |-> Dict([id |-> Str(<<"msg_abc">>), text |-> Str(<<"Hello">>),
                                      from |-> Dict([channel |-> Str(<<"sms">>),
                                                     address |-> Str(RcpB)])])])]
BodyInternalNoRcp ==
    [event |-> Str(<<"message.created">>),
     data |-> Dict([conversationId |-> Str(<<"conv_123">>),
                    message |-> Dict([id |-> Str(<<"msg_abc">>), text |-> Str(<<"Hello">>)])])]
BodyNativeNoRcp ==
    [alert_type |-> Inbound, text |-> Str(<<"Hi">>), message_id |-> Str(<<"in-1">>)]
BodyEmptyText ==
    [alert_type |-> Inbound, recipient |-> Str(RcpA), text |-> Str(<<" ", "\t">>),
     message_id |-> Str(<<"in-3">>)]
BodyReaction ==
    [alert_type |-> Inbound, recipient |-> Str(RcpA), message_type |-> Str(<<"reaction">>),
     reaction |-> Str(<<"LIKE">>), message_id |-> Str(<<"in-4">>)]
BodyAudio ==
    [alert_type |-> Inbound, recipient |-> Str(RcpA), message_type |-> Str(<<"Audio">>),
     message_id |-> Str(<<"in-5">>)]
BodyAudioNoRcp ==
    [alert_type |-> Inbound, message_type |-> Str(<<"audio">>), text |-> Str(<<"Hi">>)]
BodySticker ==
    [alert_type |-> Inbound, recipient |-> Str(RcpA), message_type |-> Str(<<"sticker">>)]
\* A sticker with a caption.
BodyStickerText ==
    [alert_type |-> Inbound, recipient |-> Str(RcpA), text |-> Str(<<"Hi">>),
     message_type |-> Str(<<"sticker">>)]
BodyStickerNoRcp ==
    [alert_type |-> Inbound, message_type |-> Str(<<"sticker">>)]
BodyStatus ==
    [alert_type |-> Str(<<"message_sent">>), recipient |-> Str(RcpA), text |-> Str(<<"Hi">>),
     message_id |-> Str(<<"in-1">>)]
BodyStatusNoRcp ==
    [alert_type |-> Str(<<"message_failed">>), text |-> Str(<<"Hi">>)]
BodyFromBot ==
    [alert_type |-> Inbound, recipient |-> Str(<<"Chip@AI.imsg.bot">>), text |-> Str(<<"Hi">>),
     message_id |-> Str(<<"in-6">>)]
BodyBadAlert ==
    [alert_type |-> Num(<<"5">>), recipient |-> Str(RcpA), text |-> Str(<<"Hi">>)]
\* Status callbacks about an audio message and about a sticker, and an
\* audio message whose sender is the bot's own address.
BodyStatusAudio ==
    [alert_type |-> Str(<<"message_sent">>), recipient |-> Str(RcpA),
     message_type |-> Str(<<"audio">>), message_id |-> Str(<<"in-7">>)]
BodyStatusSticker ==
    [alert_type |-> Str(<<"message_failed">>), recipient |-> Str(RcpA),
     message_type |-> Str(<<"sticker">>), message_id |-> Str(<<"in-8">>)]
BodyAudioFromBot ==
    [alert_type |-> Inbound, recipient |-> Str(BotSender),
     message_type |-> Str(<<"audio">>), message_id |-> Str(<<"in-9">>)]

\* The credentials HTTPBearer hands over: none, the secret, another
\* token, and the secret behind a second "Bearer " prefix.
GoodToken == Str(Secret)
BearerToken == Str(<<"Bearer ">> \o Secret)
Tokens == {NoneV, GoodToken, Str(<<"wrong">>), BearerToken}

Request(token, body) == [provider |-> "loop", token |-> token, body |-> body]

\* The requests of one behaviour come from one family.  The pipeline
\* families cover authentication, the payload shapes, the message types
\* and the early filters; the deduplication families are deliveries of
\* text messages with equal or different keys.
AuthFamily ==
    {Request(t, BodyText) : t \in Tokens \ {BearerToken}}
      \cup {Request(BearerToken, BodyAudio)}
NoTokenFamily == {Request(NoneV, BodyText)}
ShapeFamily == {Request(GoodToken, b) : b \in {BodyInternal, BodyInternalNoRcp, BodyNativeNoRcp}}
TypeFamily ==
    {Request(GoodToken, b) :
        b \in {BodyReaction, BodyAudio, BodyAudioNoRcp, BodySticker, BodyStickerNoRcp,
               BodyStickerText}}
FilterFamily ==
    {Request(GoodToken, b) :
        b \in {BodyStatus, BodyStatusNoRcp, BodyFromBot, BodyBadAlert, BodyEmptyText}}

OrderFamily ==
    {Request(GoodToken, b) : b \in {BodyStatusAudio, BodyStatusSticker, BodyAudioFromBot}}

\* POST /webhooks/missing, for which no adapter is registered, next to
\* deliveries to /webhooks/loop.
UnknownProvider == [provider |-> "missing", token |-> GoodToken, body |-> BodyText]
ProviderFamily == {UnknownProvider, Request(GoodToken, BodyReaction), Request(NoneV, BodyText)}

Families == {AuthFamily, ShapeFamily, TypeFamily, FilterFamily, OrderFamily, ProviderFamily}

\* A message whose sender's address is the text "no-recipient", and the
\* same message without a sender.
BodySentinelRcp ==
    [alert_type |-> Inbound, recipient |-> Str(<<"no-recipient">>), text |-> Str(<<"Hi">>),
     message_id |-> Str(<<"in-1">>)]
BodyNoRcp ==
    [alert_type |-> Inbound, text |-> Str(<<"Hi">>), message_id |-> Str(<<"in-1">>)]
SentinelFamily == {Request(GoodToken, BodySentinelRcp), Request(GoodToken, BodyNoRcp)}

DedupFamilies ==
    {{Request(GoodToken, BodyChip), Request(GoodToken, BodyChipSpaced)},
     {Request(GoodToken, BodyText), Request(GoodToken, BodyTextOther)}}

(***************************************************************************)
(* State.                                                                  *)
(*   now, ticks  the clock read by datetime.now() and the number of times  *)
(*               it advanced                                               *)
(*   cache       _processed_messages                                       *)
(*   lastMark    history: for every key ever marked, the time of its last  *)
(*               mark (never purged)                                       *)
(*   env         the process environment (LOOP_WEBHOOK_AUTH, and whether   *)
(*               LOOP_AUTHORIZATION / LOOP_SECRET_KEY are set) and the     *)
(*               surroundings: the requests that may be delivered, whether *)
(*               every outcome of the collaborators is explored, the steps *)
(*               of the clock and how many of them it takes                *)
(*   hs          one record per webhook_events invocation: its position,   *)
(*               locals, response and the calls it made                    *)
(*   call        a direct call of an adapter or message-model function:    *)
(*               its arguments and, once it ran, what it returned or       *)
(*               raised (NoCall in the webhook specifications)             *)
(***************************************************************************)
VARIABLES now, ticks, cache, lastMark, env, hs, call

vars == <<now, ticks, cache, lastMark, env, hs, call>>

NoCall == [op |-> "none"]

TickSteps == {1, 10, 3600}

AudioReply ==
    <<"I received your audio message! Could you send that as text? I'm better at understanding written messages.">>
NonTextReply ==
    <<"I received your message, but I'm best at handling text messages. Could you send that as text?">>
ApologyReply ==
    <<"I'm having trouble processing that right now. Could you try rephrasing your message?">>
GreetingReply ==
    <<"Thanks for your message! I'm Chip, your Alabama tech community AI agent. How can I help you today?">>
SubmissionPrefix == <<"Thanks! I've recorded your submission.\n\n">>

Replies == {<<"Hello there!">>, <<"Submission", " ", "noted">>}

\* Response bodies.  The interpolated tail of a reason or of an error
\* (the message type, the alert type, the exception text) is left out.
RespOk == [ok |-> TRUE]
RespIgnored(reason) == [ok |-> TRUE, ignored |-> TRUE, reason |-> reason]
RespNormError == [ok |-> TRUE, error |-> "Failed to normalize event"]
RespGenError == [ok |-> TRUE, error |-> "Failed to generate reply", message_processed |-> TRUE]
RespHttpError(detail) == [ok |-> FALSE, error |-> detail]
RespUnhandled == [ok |-> FALSE, error |-> "Internal server error"]
NoResp == [none |-> TRUE]

\* A handler record.  req: the request; prior: the invocations that had
\* returned when this one began; ev, cleaned, reply, after: locals (after is
\* the response to return once the pending send is over); status, resp: the
\* HTTP response; norm, lookups, gen: calls of normalize_event, of the user
\* service and of the reply generator; user_raised: the user service
\* raised; kind: how context retrieval and reply generation ended ("" when
\* they did not run); generated: the reply the generator returned; sent:
\* the send_message calls; checked, dup: whether the duplicate check ran and
\* its result; recent, entries: whether the key had been marked less than
\* RATE_LIMIT_WINDOW before the check, and the number of cache entries
\* under the key after it; marked: whether this invocation marked its key.
IdleHandler ==
    [pc |-> "idle", req |-> NoResp, prior |-> {}, ev |-> NoResp, cleaned |-> <<>>,
     reply |-> <<>>, after |-> NoResp, status |-> 0, resp |-> NoResp,
     norm |-> 0, lookups |-> 0, gen |-> 0, user_raised |-> FALSE, kind |-> "",
     generated |-> <<>>, sent |-> <<>>,
     checked |-> FALSE, dup |-> FALSE, recent |-> FALSE, entries |-> 0, marked |-> FALSE]

\* The handler returns (or raises an HTTPException) with this response.
Return(h, status, resp) ==
    [h EXCEPT !.pc = "done", !.status = status, !.resp = resp, !.after = NoResp]

\* The handler is about to call adapter.send_message with this text and
\* will return resp afterwards.
ToSend(h, text, resp) == [h EXCEPT !.pc = "send", !.reply = text, !.after = resp]

\* Variant: the audio branch replies without looking at the recipient.
Route_audio(h) ==
    LET mt == h.ev.message_type
        rcp == h.ev.recipient
    IN  IF mt # NoneV /\ mt # Str(<<"text">>)
        THEN IF mt = Str(<<"audio">>)
             THEN ToSend(h, AudioReply, RespIgnored("Audio message - requested text"))
             ELSE IF mt = Str(<<"reaction">>)
             THEN Return(h, 200, RespIgnored("Reaction message - no response needed"))
             ELSE IF h.ev.text = <<>> /\ Truthy(rcp)
                  THEN ToSend(h, NonTextReply, RespIgnored("Non-text message type"))
                  ELSE Return(h, 200, RespIgnored("Non-text message type"))
        ELSE IF Truthy(h.ev.alert_type) /\ h.ev.alert_type # Inbound
        THEN Return(h, 200, RespIgnored("Not a user message"))
        ELSE IF Truthy(rcp) /\ Lower(rcp.v) = Lower(BotSender)
        THEN Return(h, 200, RespIgnored("Message from bot itself"))
        ELSE [h EXCEPT !.pc = "check", !.cleaned = extract_clean_message(h.ev.text)]

\* Variant: an audio event goes through the duplicate check like a text.
Route_audio_checked(h) ==
    LET mt == h.ev.message_type
        rcp == h.ev.recipient
    IN  IF mt # NoneV /\ mt # Str(<<"text">>) /\ mt # Str(<<"audio">>)
        THEN IF mt = Str(<<"reaction">>)
             THEN Return(h, 200, RespIgnored("Reaction message - no response needed"))
             ELSE IF h.ev.text = <<>> /\ Truthy(rcp)
                  THEN ToSend(h, NonTextReply, RespIgnored("Non-text message type"))
                  ELSE Return(h, 200, RespIgnored("Non-text message type"))
        ELSE IF Truthy(h.ev.alert_type) /\ h.ev.alert_type # Inbound
        THEN Return(h, 200, RespIgnored("Not a user message"))
        ELSE IF Truthy(rcp) /\ Lower(rcp.v) = Lower(BotSender)
        THEN Return(h, 200, RespIgnored("Message from bot itself"))
        ELSE [h EXCEPT !.pc = "check", !.cleaned = extract_clean_message(h.ev.text)]

\* Variant: the other non-text types get the reply whatever their text.
Route_anytext(h) ==
    LET mt == h.ev.message_type
        rcp == h.ev.recipient
    IN  IF mt # NoneV /\ mt # Str(<<"text">>)
        THEN IF mt = Str(<<"audio">>)
             THEN IF Truthy(rcp)
                  THEN ToSend(h, AudioReply, RespIgnored("Audio message - requested text"))
                  ELSE Return(h, 200, RespIgnored("Audio message - requested text"))
             ELSE IF mt = Str(<<"reaction">>)
             THEN Return(h, 200, RespIgnored("Reaction message - no response needed"))
             ELSE IF Truthy(rcp)
                  THEN ToSend(h, NonTextReply, RespIgnored("Non-text message type"))
                  ELSE Return(h, 200, RespIgnored("Non-text message type"))
        ELSE IF Truthy(h.ev.alert_type) /\ h.ev.alert_type # Inbound
        THEN Return(h, 200, RespIgnored("Not a user message"))
        ELSE IF Truthy(rcp) /\ Lower(rcp.v) = Lower(BotSender)
        THEN Return(h, 200, RespIgnored("Message from bot itself"))
        ELSE [h EXCEPT !.pc = "check", !.cleaned = extract_clean_message(h.ev.text)]

\* Variant: a reaction is handled like the other non-text types.
Route_reaction(h) ==
    LET mt == h.ev.message_type
        rcp == h.ev.recipient
    IN  IF mt # NoneV /\ mt # Str(<<"text">>)
        THEN IF mt = Str(<<"audio">>)
             THEN IF Truthy(rcp)
                  THEN ToSend(h, AudioReply, RespIgnored("Audio message - requested text"))
                  ELSE Return(h, 200, RespIgnored("Audio message - requested text"))
             ELSE IF h.ev.text = <<>> /\ Truthy(rcp)
                  THEN ToSend(h, NonTextReply, RespIgnored("Non-text message type"))
                  ELSE Return(h, 200, RespIgnored("Non-text message type"))
        ELSE IF Truthy(h.ev.alert_type) /\ h.ev.alert_type # Inbound
        THEN Return(h, 200, RespIgnored("Not a user message"))
        ELSE IF Truthy(rcp) /\ Lower(rcp.v) = Lower(BotSender)
        THEN Return(h, 200, RespIgnored("Message from bot itself"))
        ELSE [h EXCEPT !.pc = "check", !.cleaned = extract_clean_message(h.ev.text)]

\* webhook_events from the normalized event up to the duplicate check.
Route(h) ==
    LET mt == h.ev.message_type
        rcp == h.ev.recipient
    IN  IF mt # NoneV /\ mt # Str(<<"text">>)
        THEN IF mt = Str(<<"audio">>)
             THEN IF Truthy(rcp)
                  THEN ToSend(h, AudioReply, RespIgnored("Audio message - requested text"))
                  ELSE Return(h, 200, RespIgnored("Audio message - requested text"))
             ELSE IF mt = Str(<<"reaction">>)
             THEN Return(h, 200, RespIgnored("Reaction message - no response needed"))
             ELSE IF h.ev.text = <<>> /\ Truthy(rcp)
                  THEN ToSend(h, NonTextReply, RespIgnored("Non-text message type"))
                  ELSE Return(h, 200, RespIgnored("Non-text message type"))
        ELSE IF Truthy(h.ev.alert_type) /\ h.ev.alert_type # Inbound
        THEN Return(h, 200, RespIgnored("Not a user message"))
        ELSE IF Truthy(rcp) /\ Lower(rcp.v) = Lower(BotSender)
        THEN Return(h, 200, RespIgnored("Message from bot itself"))
        ELSE [h EXCEPT !.pc = "check", !.cleaned = extract_clean_message(h.ev.text)]

\* Variant: an exception of normalize_event is not caught.
Entry_uncaught(r, prior) ==
    LET h0 == [IdleHandler EXCEPT !.req = r, !.prior = prior]
    IN  IF AdapterRegistry_get(_registry, r.provider, 0).raised = "KeyError"
        THEN Return(h0, 500, RespUnhandled)
        ELSE IF ~verify_request(env.webhook_auth, r.token)
        THEN Return(h0, 401, RespHttpError("Unauthorized webhook"))
        ELSE LET n == normalize_event(r.body)
                 h1 == [h0 EXCEPT !.norm = 1]
             IN  IF ~n.ok THEN Return(h1, 500, RespUnhandled)
                 ELSE Route([h1 EXCEPT !.ev = n.ev])

\* webhook_events from its entry up to the duplicate check.
Entry(r, prior) ==
    LET h0 == [IdleHandler EXCEPT !.req = r, !.prior = prior]
    IN  IF AdapterRegistry_get(_registry, r.provider, 0).raised = "KeyError"
        THEN Return(h0, 500, RespUnhandled)
        ELSE IF ~verify_request(env.webhook_auth, r.token)
        THEN Return(h0, 401, RespHttpError("Unauthorized webhook"))
        ELSE LET n == normalize_event(r.body)
                 h1 == [h0 EXCEPT !.norm = 1]
             IN  IF ~n.ok THEN Return(h1, 200, RespNormError)
                 ELSE Route([h1 EXCEPT !.ev = n.ev])

\* The key of a handler's message.
KeyOf(h) == _get_message_key(h.ev.message_id, h.ev.recipient, h.cleaned)

\* History: the key was marked less than RATE_LIMIT_WINDOW ago.
RecentlyMarked(key) ==
    \E m \in lastMark : m.key = key /\ now - m.ts < RATE_LIMIT_WINDOW

\* Variant: an event without a recipient is processed like the others.
Check_anonymous(h) ==
    LET dup == _is_message_processed(cache, now, h.ev.message_id, h.ev.recipient, h.cleaned)
        h1 == [h EXCEPT !.checked = TRUE, !.dup = dup, !.recent = RecentlyMarked(KeyOf(h)),
                        !.entries = Cardinality({e \in _cleanup_old_messages(cache, now) :
                                                   e.key = KeyOf(h)})]
    IN  IF dup THEN Return(h1, 200, RespIgnored("Message already processed recently"))
        ELSE [h1 EXCEPT !.pc = "process"]

\* The duplicate check and what follows it without a blocking call.
Check(h) ==
    LET dup == _is_message_processed(cache, now, h.ev.message_id, h.ev.recipient, h.cleaned)
        h1 == [h EXCEPT !.checked = TRUE, !.dup = dup, !.recent = RecentlyMarked(KeyOf(h)),
                        !.entries = Cardinality({e \in _cleanup_old_messages(cache, now) :
                                                   e.key = KeyOf(h)})]
    IN  IF dup THEN Return(h1, 200, RespIgnored("Message already processed recently"))
        ELSE IF Truthy(h.ev.recipient) THEN [h1 EXCEPT !.pc = "process"]
        ELSE Return(h1, 200, RespOk)

\* A request arrives and runs up to its first blocking call.  Deliveries
\* are numbered in arrival order.
Start(h) ==
    /\ hs[h].pc = "idle"
    /\ \A g \in Handlers : g < h => hs[g].pc # "idle"
    /\ \E r \in env.reqs :
         LET e == Entry(r, {g \in Handlers : hs[g].pc = "done"})
         IN  IF e.pc = "check"
             THEN /\ hs' = [hs EXCEPT ![h] = Check(e)]
                  /\ cache' = _cleanup_old_messages(cache, now)
             ELSE /\ hs' = [hs EXCEPT ![h] = e]
                  /\ cache' = cache
    /\ UNCHANGED <<now, ticks, lastMark, env, call>>

\* The handler after the line `_mark_message_processed(...)`.
Marked(h) == [h EXCEPT !.marked = TRUE]

Contains(s, tok) == \E i \in 1..Len(s) : LowerTok(s[i]) = tok

\* What the collaborators do: the user service returns a user id, returns
\* None or raises; context retrieval or the reply generator raises, or the
\* generator returns a reply and maybe a submission, whose recording
\* succeeds, returns None or raises.
Outcome(u, k, r, s, c) == [user |-> u, kind |-> k, reply |-> r, submission |-> s, created |-> c]

AllOutcomes ==
    {Outcome(u, k, <<>>, FALSE, "none") :
        u \in {"u1", "none", "raise"}, k \in {"rag_raise", "llm_raise"}}
      \cup {Outcome(u, "ok", <<"Hello there!">>, FALSE, "none") : u \in {"u1", "none", "raise"}}
      \cup {Outcome(u, "ok", r, TRUE, "created") : u \in {"u1", "none"}, r \in Replies}
      \cup {Outcome(u, "ok", <<"Hello there!">>, TRUE, c) :
              u \in {"u1", "none"}, c \in {"none", "raise"}}

\* The specifications of deliveries over time keep the success; the
\* failures are covered with every outcome at one time.
FewOutcomes == {Outcome("u1", "ok", <<"Hello there!">>, FALSE, "none")}

Outcomes == IF env.all THEN AllOutcomes ELSE FewOutcomes

\* reply_text after the submission block.
ReplyText(g) ==
    IF g.submission /\ g.user = "u1" /\ g.created = "created"
       /\ ~Contains(g.reply, "submission")
    THEN SubmissionPrefix \o g.reply
    ELSE g.reply

\* Variant: a failure of context retrieval or reply generation is not
\* caught and becomes the 500 of the unhandled-exception handler.
Processed_unhandled(h, g) ==
    LET h1 == Marked([h EXCEPT !.lookups = @ + 1, !.user_raised = (g.user = "raise")])
    IN  IF ~(h.cleaned # <<>> /\ Strip(h.cleaned) # <<>>)
        THEN ToSend(h1, GreetingReply, RespOk)
        ELSE IF g.kind = "ok"
        THEN ToSend([h1 EXCEPT !.gen = @ + 1, !.kind = g.kind, !.generated = g.reply],
                    ReplyText(g), RespOk)
        ELSE Return([h EXCEPT !.lookups = @ + 1, !.user_raised = (g.user = "raise"),
                              !.gen = IF g.kind = "rag_raise" THEN @ ELSE @ + 1,
                              !.kind = g.kind],
                    500, RespHttpError("Internal server error"))

\* Variant: the except branch sends the apology without marking.
Processed_nomark(h, g) ==
    LET h0 == [h EXCEPT !.lookups = @ + 1, !.user_raised = (g.user = "raise")]
        h1 == Marked(h0)
    IN  IF ~(h.cleaned # <<>> /\ Strip(h.cleaned) # <<>>)
        THEN ToSend(h1, GreetingReply, RespOk)
        ELSE IF g.kind = "ok"
        THEN ToSend([h1 EXCEPT !.gen = @ + 1, !.kind = g.kind, !.generated = g.reply],
                    ReplyText(g), RespOk)
        ELSE ToSend([h0 EXCEPT !.gen = IF g.kind = "rag_raise" THEN @ ELSE @ + 1,
                               !.kind = g.kind],
                    ApologyReply, RespGenError)

\* Variant: the empty-text branch sends the greeting without marking.
Processed_greeting_unmarked(h, g) ==
    LET h0 == [h EXCEPT !.lookups = @ + 1, !.user_raised = (g.user = "raise")]
        h1 == Marked(h0)
    IN  IF ~(h.cleaned # <<>> /\ Strip(h.cleaned) # <<>>)
        THEN ToSend(h0, GreetingReply, RespOk)
        ELSE IF g.kind = "ok"
        THEN ToSend([h1 EXCEPT !.gen = @ + 1, !.kind = g.kind, !.generated = g.reply],
                    ReplyText(g), RespOk)
        ELSE ToSend([h1 EXCEPT !.gen = IF g.kind = "rag_raise" THEN @ ELSE @ + 1,
                               !.kind = g.kind],
                    ApologyReply, RespGenError)

\* webhook_events from the user lookup to the mark: the empty-text branch
\* marks and goes to send the greeting; otherwise context retrieval, reply
\* generation and submission recording run, the key is marked, and the
\* handler goes on to send the reply or the apology.
\* Variant: a generated reply is sent before its message is marked.
Processed_send_first(h, g) ==
    LET h1 == Marked([h EXCEPT !.lookups = @ + 1, !.user_raised = (g.user = "raise")])
        h0 == [h EXCEPT !.lookups = @ + 1, !.user_raised = (g.user = "raise")]
    IN  IF ~(h.cleaned # <<>> /\ Strip(h.cleaned) # <<>>)
        THEN ToSend(h1, GreetingReply, RespOk)
        ELSE IF g.kind = "ok"
        THEN ToSend([h0 EXCEPT !.gen = @ + 1, !.kind = g.kind, !.generated = g.reply],
                    ReplyText(g), RespOk)
        ELSE ToSend([h1 EXCEPT !.gen = IF g.kind = "rag_raise" THEN @ ELSE @ + 1,
                               !.kind = g.kind],
                    ApologyReply, RespGenError)

Processed(h, g) ==
    LET h1 == Marked([h EXCEPT !.lookups = @ + 1, !.user_raised = (g.user = "raise")])
    IN  IF ~(h.cleaned # <<>> /\ Strip(h.cleaned) # <<>>)
        THEN ToSend(h1, GreetingReply, RespOk)
        ELSE IF g.kind = "ok"
        THEN ToSend([h1 EXCEPT !.gen = @ + 1, !.kind = g.kind, !.generated = g.reply],
                    ReplyText(g), RespOk)
        ELSE ToSend([h1 EXCEPT !.gen = IF g.kind = "rag_raise" THEN @ ELSE @ + 1,
                               !.kind = g.kind],
                    ApologyReply, RespGenError)

Process(h) ==
    /\ hs[h].pc = "process"
    /\ \E g \in Outcomes :
         /\ hs' = [hs EXCEPT ![h] = Processed(hs[h], g)]
         /\ IF Processed(hs[h], g).marked
            THEN /\ cache' = _mark_message_processed(cache, now, hs[h].ev.message_id,
                                                     hs[h].ev.recipient, hs[h].cleaned)
                 /\ lastMark' = {m \in lastMark : m.key # KeyOf(hs[h])}
                                  \cup {[key |-> KeyOf(hs[h]), ts |-> now]}
            ELSE UNCHANGED <<cache, lastMark>>
    /\ UNCHANGED <<now, ticks, env, call>>

\* OutboundMessage.ensure_valid_target of a message without group_id
ensure_valid_target(recipient) == Truthy(recipient)

\* LoopClient.send_message: the attempt it makes.  Without credentials or
\* without a target it raises before the network call; otherwise the
\* provider accepts the message and returns its id, or answers with an
\* HTTP error, which raises.
\* The texts of the exceptions send_message raises.
MissingCredentials == <<"Missing LOOP_AUTHORIZATION or LOOP_SECRET_KEY environment variables">>
InvalidTarget == <<"Either recipient or group_id must be provided">>
HttpStatusError == <<"Server error '500 Internal Server Error' for url">>

\* Variant: the credentials are not looked at.
send_message_nocreds(to, text, outcome) ==
    LET posted == ensure_valid_target(to)
    IN  [to |-> to, text |-> text, posted |-> posted, ok |-> posted /\ outcome = "ok",
         message_id |-> IF posted /\ outcome = "ok" THEN <<"out-1">> ELSE <<>>,
         error |-> IF ~ensure_valid_target(to) THEN InvalidTarget
                   ELSE IF outcome = "ok" THEN <<>> ELSE HttpStatusError]

send_message(to, text, outcome) ==
    LET posted == env.creds /\ ensure_valid_target(to)
    IN  [to |-> to, text |-> text, posted |-> posted, ok |-> posted /\ outcome = "ok",
         message_id |-> IF posted /\ outcome = "ok" THEN <<"out-1">> ELSE <<>>,
         error |-> IF ~env.creds THEN MissingCredentials
                   ELSE IF ~ensure_valid_target(to) THEN InvalidTarget
                   ELSE IF outcome = "ok" THEN <<>> ELSE HttpStatusError]

\* The handler's `except` around a send prints the error unless its text
\* holds "280" or "opted out".
Printed(error) == ~Contains(error, "280") /\ ~Contains(error, "opted out")

\* A send attempt r of the handler, with whether its error was printed.
Attempt(r) ==
    [to |-> r.to, text |-> r.text, posted |-> r.posted, ok |-> r.ok,
     message_id |-> r.message_id, error |-> r.error,
     logged |-> r.error # <<>> /\ Printed(r.error)]

\* What the provider answers to a send: it accepts the message or answers
\* with an HTTP error.  The deduplication specification keeps the provider
\* that accepts.
SendOutcomes == IF env.all THEN {"ok", "http_error"} ELSE {"ok"}

\* Variant: a failed send of a reply is followed by a send of the apology.
Sent_apology(h, r) ==
    IF r.ok \/ h.reply = ApologyReply
    THEN Return([h EXCEPT !.sent = Append(@, Attempt(r))], 200, h.after)
    ELSE ToSend([h EXCEPT !.sent = Append(@, Attempt(r))], ApologyReply, RespGenError)

\* The handler after the send attempt r: the exception of a failed send
\* is caught where it was made, and the handler returns.
Sent(h, r) ==
    Return([h EXCEPT !.sent = Append(@, Attempt(r))], 200, h.after)

\* adapter.send_message inside try/except, then the handler returns.
Send(h) ==
    /\ hs[h].pc = "send"
    /\ \E outcome \in SendOutcomes :
         hs' = [hs EXCEPT ![h] =
                  Sent(hs[h], send_message(hs[h].ev.recipient, hs[h].reply, outcome))]
    /\ UNCHANGED <<now, ticks, cache, lastMark, env, call>>

\* Time passes.
Tick ==
    /\ ticks < env.budget
    /\ \E d \in env.steps : now' = now + d
    /\ ticks' = ticks + 1
    /\ UNCHANGED <<cache, lastMark, env, hs, call>>

Next ==
    \/ Tick
    \/ \E h \in Handlers : Start(h)
    \/ \E h \in Handlers : Process(h)
    \/ \E h \in Handlers : Send(h)

InitState ==
    /\ now = 0
    /\ ticks = 0
    /\ cache = {}
    /\ lastMark = {}
    /\ hs = [h \in Handlers |-> IdleHandler]

\* No direct call is made in the webhook specifications.
NoDirectCall == call = NoCall

\* The pipeline specification: the test configuration, the same without
\* provider credentials, and no webhook secret; the clock advances once.
Env(auth, creds, reqs, all, steps, budget) ==
    [webhook_auth |-> auth, creds |-> creds, reqs |-> reqs, all |-> all, steps |-> steps,
     budget |-> budget]

Init ==
    /\ InitState
    /\ NoDirectCall
    /\ env \in {Env(Secret, c, f, TRUE, {10}, 1) : c \in BOOLEAN, f \in Families}
                 \cup {Env(<<>>, TRUE, NoTokenFamily, FALSE, {10}, 1)}

Spec == Init /\ [][Next]_vars

\* The deduplication specification: the test configuration and deliveries
\* of text messages over time.
InitDedup ==
    /\ InitState
    /\ NoDirectCall
    /\ env \in {Env(Secret, TRUE, f, FALSE, TickSteps, MaxTicks) : f \in DedupFamilies}

SpecDedup == InitDedup /\ [][Next]_vars

\* Deliveries with and without a sender, over time.
InitSentinel ==
    /\ InitState
    /\ NoDirectCall
    /\ env = Env(Secret, TRUE, SentinelFamily, FALSE, {1, 10}, MaxTicks)

SpecSentinel == InitSentinel /\ [][Next]_vars

(***************************************************************************)
(* Outbound message models (app/types/messages.py).  A message is built    *)
(* from keyword arguments a: kind ("text", "reaction", "audio") stands for *)
(* the class; Optional fields hold None or a string; attachments holds     *)
(* None or a list of URLs; a URL is a sequence of tokens, each standing    *)
(* for a run of characters of a known length.                              *)
(***************************************************************************)
MAX_ATTACHMENTS == 3
MAX_URL_LENGTH == 256

List(v) == [t |-> "list", v |-> v]

\* len() of a token and of a string
TokLen(c) ==
    CASE c = "https://" -> 8
      [] c = "http://" -> 7
      [] c = "example.com/p" -> 13
      [] c = "<243 characters>" -> 243
      [] c = "x" -> 1
      [] c \in {".png", ".PNG", ".jpg", ".gif", ".txt", ".m4a"} -> 4
      [] c \in {".jpeg", ".JPEG", ".webp"} -> 5
      [] OTHER -> 1

RECURSIVE StrLen(_)
StrLen(u) == IF u = <<>> THEN 0 ELSE TokLen(Head(u)) + StrLen(Tail(u))

\* str.endswith(ext)
EndsWith(u, ext) == u # <<>> /\ u[Len(u)] = ext

ImageExtensions == {".png", ".jpg", ".jpeg", ".gif", ".webp"}

\* The checks _validate_attachments makes on one URL.
ValidAttachmentUrl(u) ==
    /\ ~(StrLen(u) > MAX_URL_LENGTH)
    /\ StartsWith(u, <<"https://">>)
    /\ \E ext \in ImageExtensions : EndsWith(Lower(u), ext)

\* Variant: a list of MAX_ATTACHMENTS URLs is already too long.
_validate_attachments_ge(v) ==
    \/ v = NoneV
    \/ /\ ~(Len(v.v) >= MAX_ATTACHMENTS)
       /\ \A i \in 1..Len(v.v) : ValidAttachmentUrl(v.v[i])

\* IMessageTextMessage._validate_attachments: TRUE when it returns, FALSE
\* when it raises ValueError.
_validate_attachments(v) ==
    \/ v = NoneV
    \/ /\ ~(Len(v.v) > MAX_ATTACHMENTS)
       /\ \A i \in 1..Len(v.v) : ValidAttachmentUrl(v.v[i])

Sms == Str(<<"sms">>)

\* Variant: reply_to_id is not looked at.
_enforce_service_constraints_noreply(a) ==
    ~(a.service = Sms /\ (a.subject # NoneV \/ a.effect # NoneV))

\* The model validators: TRUE when they return, FALSE when they raise.
_enforce_service_constraints(a) ==
    ~(a.service = Sms
        /\ (a.subject # NoneV \/ a.effect # NoneV \/ a.reply_to_id # NoneV))

_enforce_reaction_constraints(a) == ~(a.service = Sms)

_validate_media_url(v) == IsStr(v) /\ v.v # <<>> /\ StartsWith(v.v, <<"https://">>)

_enforce_audio_constraints(a) == ~(a.service = Sms)

\* Construction of a message: the field validators, then the model
\* validator.  The result is the message, or the ValueError raised.
Built(a) == [ok |-> TRUE, msg |-> a]
ConstructionError == [ok |-> FALSE, error |-> "ValueError"]

IMessageTextMessage(a) ==
    IF _validate_attachments(a.attachments) /\ _enforce_service_constraints(a)
    THEN Built(a) ELSE ConstructionError

IMessageReactionMessage(a) ==
    IF _enforce_reaction_constraints(a) THEN Built(a) ELSE ConstructionError

IMessageAudioMessage(a) ==
    IF _validate_media_url(a.media_url) /\ _enforce_audio_constraints(a)
    THEN Built(a) ELSE ConstructionError

NewMessage(a) ==
    CASE a.kind = "text" -> IMessageTextMessage(a)
      [] a.kind = "reaction" -> IMessageReactionMessage(a)
      [] a.kind = "audio" -> IMessageAudioMessage(a)

\* OutboundMessage.ensure_valid_target of a message m: TRUE when it
\* returns, FALSE when it raises ValueError.
OutboundMessage_ensure_valid_target(m) == Truthy(m.recipient) \/ Truthy(m.group_id)

(***************************************************************************)
(* Direct calls of normalize_event.  The bodies are built field by field   *)
(* from well-typed and ill-typed values; a field may be absent.            *)
(***************************************************************************)
Absent == [t |-> "absent"]

\* The dict with the fields of d that are present.
Prune(d) == [k \in {j \in DOMAIN d : d[j] # Absent} |-> d[k]]

FiveV == Num(<<"5">>)
AddressA == Dict([address |-> Str(RcpA)])
AddressB == Dict([channel |-> Str(<<"sms">>), address |-> Str(RcpB)])
AddressBad == Dict([address |-> FiveV])

\* data.message and data of the internal shape
InternalMessages ==
    {Dict(Prune([id |-> i, text |-> t, from |-> f])) :
        i \in {Absent, Str(<<"msg_abc">>)},
        t \in {Absent, Str(<<"Hello">>), FiveV},
        f \in {Absent, Str(RcpB), AddressB, AddressBad}}

InternalData ==
    {Dict(Prune([conversationId |-> c, message |-> m])) :
        c \in {Absent, Str(<<"conv_123">>), FiveV},
        m \in InternalMessages \cup {Absent, Str(<<"Hello">>)}}

NativeBodies ==
    {Dict(Prune([alert_type |-> a, text |-> t, recipient |-> r, message_id |-> i,
                 group |-> g, data |-> d])) :
        a \in {Inbound, FiveV},
        t \in {Absent, Str(<<"Hi">>), FiveV, NoneV},
        r \in {Absent, Str(RcpA), AddressA, AddressBad},
        i \in {Absent, Str(<<"m1">>), FiveV},
        g \in {Absent, Str(<<"g1">>), Dict([group_id |-> Str(<<"g1">>)]),
               Dict([group_id |-> FiveV])},
        d \in {Absent, Dict([message |-> Dict([text |-> Str(<<"Hello">>), from |-> AddressB])])}}

InternalBodies ==
    {Dict(Prune([event |-> e, data |-> d, recipient |-> r])) :
        e \in {Absent, Str(<<"message.created">>), FiveV},
        d \in InternalData \cup {Absent, Str(<<"Hello">>)},
        r \in {Absent, Str(RcpA)}}

TwilioBodies ==
    {Dict(Prune([Body |-> b, text |-> t, From |-> f, from |-> g, MessageSid |-> i,
                 SmsStatus |-> a])) :
        b \in {Absent, Str(<<"Hi">>), FiveV},
        t \in {Absent, Str(<<"Hello">>)},
        f \in {Absent, Str(RcpA), FiveV},
        g \in {Absent, Str(RcpB), AddressB, AddressBad},
        i \in {Absent, Str(<<"SM1">>)},
        a \in {Absent, Str(<<"received">>)}}

\* Native bodies with every kind of message_type and reaction: members in
\* any case, strings that are no member, values that are no string.
RawMessageTypes ==
    {Absent, NoneV, Str(<<"text">>), Str(<<"TEXT">>), Str(<<"Audio">>), Str(<<"sticker">>),
     Str(<<"video">>), Str(<<" ", "text">>), Str(<<>>), FiveV, Dict([value |-> Str(<<"text">>)])}
RawReactions ==
    {Absent, NoneV, Str(<<"like">>), Str(<<"LIKE">>), Str(<<"-love">>), Str(<<"heart">>),
     Str(<<>>), FiveV, Dict([value |-> Str(<<"like">>)])}
EnumBodies ==
    {Dict(Prune([alert_type |-> Inbound, text |-> Str(<<"Hi">>), recipient |-> r,
                 message_type |-> m, reaction |-> x])) :
        r \in {Str(RcpA), AddressBad}, m \in RawMessageTypes, x \in RawReactions}

\* Bodies that are not objects.
ScalarBodies == {NoneV, Str(<<"Hi">>), FiveV}

NormalizeCall(provider, body) ==
    [op |-> "normalize_event", provider |-> provider, body |-> body, done |-> FALSE,
     ret |-> NoResp]

NormalizeCalls ==
    {NormalizeCall("loop", b) :
        b \in NativeBodies \cup InternalBodies \cup ScalarBodies \cup EnumBodies}
      \cup {NormalizeCall("twilio", b) : b \in TwilioBodies \cup ScalarBodies}

\* adapter.normalize_event(body) of the Loop adapter
LoopNormalize ==
    /\ call.op = "normalize_event" /\ call.provider = "loop" /\ ~call.done
    /\ call' = [call EXCEPT !.done = TRUE, !.ret = LoopClient_normalize_event(call.body)]
    /\ UNCHANGED <<now, ticks, cache, lastMark, env, hs>>

\* adapter.normalize_event(body) of the Twilio adapter
TwilioNormalize ==
    /\ call.op = "normalize_event" /\ call.provider = "twilio" /\ ~call.done
    /\ call' = [call EXCEPT !.done = TRUE, !.ret = TwilioClient_normalize_event(call.body)]
    /\ UNCHANGED <<now, ticks, cache, lastMark, env, hs>>

NextNormalize == LoopNormalize \/ TwilioNormalize

\* The environment of the direct calls: the test configuration.
DirectEnv(creds) == Env(Secret, creds, {}, FALSE, {}, 0)

InitNormalize ==
    /\ InitState
    /\ env = DirectEnv(TRUE)
    /\ call \in NormalizeCalls

SpecNormalize == InitNormalize /\ [][NextNormalize]_vars

(***************************************************************************)
(* Direct calls of the adapters' send_message with a message built from    *)
(* keyword arguments.                                                      *)
(***************************************************************************)
MaxAttachments == 4

\* A value when it is truthy, else no field.
IfSet(x) == IF Truthy(x) THEN x ELSE Absent

\* The value of timeout_seconds as an integer.
Seconds(x) ==
    CASE x.v = <<"0">> -> 0
      [] x.v = <<"3">> -> 3
      [] x.v = <<"5">> -> 5
      [] x.v = <<"30">> -> 30

\* Variant: the recipient wins over the group.
_build_payload_recipient_first(m) ==
    Prune([group |-> IF ~Truthy(m.recipient) THEN IfSet(m.group_id) ELSE Absent,
           recipient |-> IfSet(m.recipient),
           reply_to_id |-> IF m.kind = "reaction" THEN Absent ELSE IfSet(m.reply_to_id),
           service |-> IfSet(m.service),
           text |-> IF m.kind = "text" THEN m.text
                    ELSE IF m.kind = "audio" THEN IfSet(m.text) ELSE Absent,
           attachments |-> IF m.kind = "text" /\ m.attachments # NoneV
                              /\ m.attachments.v # <<>>
                           THEN m.attachments ELSE Absent,
           subject |-> IF m.kind = "text" THEN IfSet(m.subject) ELSE Absent,
           effect |-> IF m.kind = "text" THEN IfSet(m.effect) ELSE Absent,
           passthrough |-> IfSet(m.passthrough),
           timeout |-> IF Truthy(m.timeout_seconds) /\ Seconds(m.timeout_seconds) >= 5
                       THEN m.timeout_seconds ELSE Absent,
           reaction |-> IF m.kind = "reaction" THEN m.reaction ELSE Absent,
           message_id |-> IF m.kind = "reaction" THEN m.target_message_id ELSE Absent,
           media_url |-> IF m.kind = "audio" THEN m.media_url ELSE Absent])

\* Variant: a reaction keeps its reply_to_id.
_build_payload_keep_reply(m) ==
    Prune([group |-> IfSet(m.group_id),
           recipient |-> IF ~Truthy(m.group_id) THEN IfSet(m.recipient) ELSE Absent,
           reply_to_id |-> IfSet(m.reply_to_id),
           service |-> IfSet(m.service),
           text |-> IF m.kind = "text" THEN m.text
                    ELSE IF m.kind = "audio" THEN IfSet(m.text) ELSE Absent,
           attachments |-> IF m.kind = "text" /\ m.attachments # NoneV
                              /\ m.attachments.v # <<>>
                           THEN m.attachments ELSE Absent,
           subject |-> IF m.kind = "text" THEN IfSet(m.subject) ELSE Absent,
           effect |-> IF m.kind = "text" THEN IfSet(m.effect) ELSE Absent,
           passthrough |-> IfSet(m.passthrough),
           timeout |-> IF Truthy(m.timeout_seconds) /\ Seconds(m.timeout_seconds) >= 5
                       THEN m.timeout_seconds ELSE Absent,
           reaction |-> IF m.kind = "reaction" THEN m.reaction ELSE Absent,
           message_id |-> IF m.kind = "reaction" THEN m.target_message_id ELSE Absent,
           media_url |-> IF m.kind = "audio" THEN m.media_url ELSE Absent])

\* LoopClient._build_payload (sender_name and the status callback, which
\* come from the environment, are left out).
_build_payload(m) ==
    Prune([group |-> IfSet(m.group_id),
           recipient |-> IF ~Truthy(m.group_id) THEN IfSet(m.recipient) ELSE Absent,
           reply_to_id |-> IF m.kind = "reaction" THEN Absent ELSE IfSet(m.reply_to_id),
           service |-> IfSet(m.service),
           text |-> IF m.kind = "text" THEN m.text
                    ELSE IF m.kind = "audio" THEN IfSet(m.text) ELSE Absent,
           attachments |-> IF m.kind = "text" /\ m.attachments # NoneV
                              /\ m.attachments.v # <<>>
                           THEN m.attachments ELSE Absent,
           subject |-> IF m.kind = "text" THEN IfSet(m.subject) ELSE Absent,
           effect |-> IF m.kind = "text" THEN IfSet(m.effect) ELSE Absent,
           passthrough |-> IfSet(m.passthrough),
           timeout |-> IF Truthy(m.timeout_seconds) /\ Seconds(m.timeout_seconds) >= 5
                       THEN m.timeout_seconds ELSE Absent,
           reaction |-> IF m.kind = "reaction" THEN m.reaction ELSE Absent,
           message_id |-> IF m.kind = "reaction" THEN m.target_message_id ELSE Absent,
           media_url |-> IF m.kind = "audio" THEN m.media_url ELSE Absent])

\* What a send_message call did: it raised error before any network call,
\* or it posted payload and then returned a SendResult (ok) or raised.
SendRaised(error) == [posted |-> FALSE, raised |-> TRUE, error |-> error, payload |-> NoResp]
SendPosted(payload, raised, error) ==
    [posted |-> TRUE, raised |-> raised, error |-> error, payload |-> payload]

\* Variant: the target is not validated.
LoopClient_send_message_unchecked(creds, m, outcome) ==
    IF ~creds THEN SendRaised("RuntimeError")
    ELSE IF outcome = "ok" THEN SendPosted(_build_payload(m), FALSE, "")
    ELSE SendPosted(_build_payload(m), TRUE, "HTTPStatusError")

\* LoopClient.send_message(message)
LoopClient_send_message(creds, m, outcome) ==
    IF ~creds THEN SendRaised("RuntimeError")
    ELSE IF ~OutboundMessage_ensure_valid_target(m) THEN SendRaised("ValueError")
    ELSE IF outcome = "ok" THEN SendPosted(_build_payload(m), FALSE, "")
    ELSE SendPosted(_build_payload(m), TRUE, "HTTPStatusError")

\* TwilioClient.send_message(message): an HTTP error is returned as a
\* SendResult with ok false, not raised.
TwilioClient_send_message(creds, m, outcome) ==
    IF ~creds THEN SendRaised("RuntimeError")
    ELSE IF m.kind # "text" THEN SendRaised("ValueError")
    ELSE IF ~OutboundMessage_ensure_valid_target(m) THEN SendRaised("ValueError")
    ELSE IF ~Truthy(m.recipient) THEN SendRaised("ValueError")
    ELSE SendPosted([To |-> m.recipient, Body |-> m.text], FALSE,
                    IF outcome = "ok" THEN "" ELSE "HTTP 500")

\* Keyword arguments.
Args(kind, recipient, group_id, service, subject, effect, reply_to_id, attachments, media_url) ==
    [kind |-> kind, recipient |-> recipient, group_id |-> group_id, service |-> service,
     subject |-> subject, effect |-> effect, reply_to_id |-> reply_to_id,
     attachments |-> attachments, media_url |-> media_url, text |-> Str(<<"hi">>),
     passthrough |-> NoneV, timeout_seconds |-> NoneV,
     reaction |-> Str(<<"like">>), target_message_id |-> Str(<<"prior-xyz">>)]

AudioUrl == Str(<<"https://", "example.com/p", ".m4a">>)

\* Messages of every class with every combination of targets, services
\* and iMessage-only fields.
TargetArgs ==
    {Args(k, r, g, sv, sj, ef, rp, NoneV, AudioUrl) :
        k \in {"text", "reaction", "audio"},
        r \in {NoneV, Str(<<>>), Str(RcpA)},
        g \in {NoneV, Str(<<"g1">>)},
        sv \in {NoneV, Str(<<"imessage">>), Sms},
        sj \in {NoneV, Str(<<"x">>)},
        ef \in {NoneV, Str(<<"confetti">>)},
        rp \in {NoneV, Str(<<"m1">>)}}

\* Audio messages with every kind of media URL.
AudioArgs ==
    {Args("audio", Str(RcpA), NoneV, NoneV, NoneV, NoneV, NoneV, NoneV, u) :
        u \in {AudioUrl, Str(<<"http://", "example.com/p", ".m4a">>), Str(<<>>)}}

Urls ==
    {<<"https://", "example.com/p", ".png">>,
     <<"https://", "example.com/p", ".JPEG">>,
     <<"http://", "example.com/p", ".png">>,
     <<"https://", "example.com/p", ".txt">>,
     <<"https://", "<243 characters>", ".webp">>,
     <<"https://", "<243 characters>", "x", ".webp">>}

UrlLists == UNION {[1..n -> Urls] : n \in 0..MaxAttachments}

\* Text messages with every list of attachments.
AttachmentArgs ==
    {Args("text", Str(RcpA), NoneV, NoneV, NoneV, NoneV, NoneV, List(v), AudioUrl) :
        v \in UrlLists}

\* Messages of every class to one recipient with every optional field
\* unset, empty or set; only an audio message may have no text.
AllOptionalArgs ==
    {[Args(k, Str(RcpA), NoneV, NoneV, sj, NoneV, rp, at, AudioUrl)
         EXCEPT !.passthrough = pt, !.timeout_seconds = ts, !.text = tx] :
        k \in {"text", "reaction", "audio"},
        sj \in {NoneV, Str(<<>>), Str(<<"x">>)},
        rp \in {NoneV, Str(<<>>), Str(<<"m1">>)},
        at \in {NoneV, List(<<>>), List(<<<<"https://", "example.com/p", ".png">>>>)},
        pt \in {NoneV, Str(<<>>), Str(<<"corr-1">>)},
        ts \in {NoneV, Num(<<"0">>), Num(<<"3">>), Num(<<"5">>), Num(<<"30">>)},
        tx \in {NoneV, Str(<<>>), Str(<<"hi">>)}}

OptionalArgs == {a \in AllOptionalArgs : a.kind = "audio" \/ a.text # NoneV}

SendCall(provider, a) ==
    [op |-> "send_message", provider |-> provider, args |-> a, pc |-> "new",
     built |-> NoResp, ret |-> NoResp]

SendCalls ==
    {SendCall(p, a) : p \in {"loop", "twilio"}, a \in TargetArgs \cup AudioArgs}
      \cup {SendCall("loop", a) : a \in AttachmentArgs \cup OptionalArgs}

\* The caller builds the message; a ValueError ends the call.
Construct ==
    /\ call.op = "send_message" /\ call.pc = "new"
    /\ call' = [call EXCEPT !.built = NewMessage(call.args),
                            !.pc = IF NewMessage(call.args).ok THEN "built" ELSE "done"]
    /\ UNCHANGED <<now, ticks, cache, lastMark, env, hs>>

\* adapter.send_message(message) of the Loop adapter
LoopSend ==
    /\ call.op = "send_message" /\ call.pc = "built" /\ call.provider = "loop"
    /\ \E outcome \in {"ok", "http_error"} :
         call' = [call EXCEPT !.pc = "done",
                              !.ret = LoopClient_send_message(env.creds, call.built.msg, outcome)]
    /\ UNCHANGED <<now, ticks, cache, lastMark, env, hs>>

\* adapter.send_message(message) of the Twilio adapter
TwilioSend ==
    /\ call.op = "send_message" /\ call.pc = "built" /\ call.provider = "twilio"
    /\ \E outcome \in {"ok", "http_error"} :
         call' = [call EXCEPT !.pc = "done",
                              !.ret = TwilioClient_send_message(env.creds, call.built.msg, outcome)]
    /\ UNCHANGED <<now, ticks, cache, lastMark, env, hs>>

NextMessages == Construct \/ LoopSend \/ TwilioSend

InitMessages ==
    /\ InitState
    /\ env \in {DirectEnv(c) : c \in BOOLEAN}
    /\ call \in SendCalls

SpecMessages == InitMessages /\ [][NextMessages]_vars

(***************************************************************************)
(* The send API, POST /messages/send (app/routers/messaging.py).  A call   *)
(* record of the API keeps the request (provider, args), the message the   *)
(* request model built, the outcome of the provider, the result of the     *)
(* adapter (ret) and the HTTP response (status, resp).                     *)
(***************************************************************************)
RespInvalidRequest == [ok |-> FALSE, error |-> "Invalid request"]

\* SendMessageRequest: the message is parsed by its message_type into one
\* of the three message classes; a validation error is answered 422.
SendMessageRequest(a) ==
    IF a.kind \notin {"text", "reaction", "audio"} THEN ConstructionError ELSE NewMessage(a)

\* The route send_message(payload) with a parsed message m.
messages_send(provider, creds, m, outcome) ==
    IF AdapterRegistry_get(_registry, provider, 0).raised = "KeyError"
    THEN [status |-> 500, resp |-> RespUnhandled, ret |-> NoResp]
    ELSE IF ~OutboundMessage_ensure_valid_target(m)
    THEN [status |-> 502, resp |-> RespHttpError("Send error"), ret |-> SendRaised("ValueError")]
    ELSE LET r == IF provider = "loop" THEN LoopClient_send_message(creds, m, outcome)
                  ELSE TwilioClient_send_message(creds, m, outcome)
         IN  IF r.raised
             THEN [status |-> 502, resp |-> RespHttpError("Send error"), ret |-> r]
             ELSE [status |-> 200, resp |-> [ok |-> TRUE, result_ok |-> r.error = ""],
                   ret |-> r]

ApiCall(provider, a) ==
    [op |-> "api_send", provider |-> provider, args |-> a, pc |-> "new",
     built |-> NoResp, outcome |-> "", ret |-> NoResp, status |-> 0, resp |-> NoResp]

\* A message of a type the request model does not know.
StickerArgs == Args("sticker", Str(RcpA), NoneV, NoneV, NoneV, NoneV, NoneV, NoneV, AudioUrl)

ApiCalls ==
    {ApiCall(p, a) : p \in {"loop", "twilio", "missing"}, a \in TargetArgs \cup {StickerArgs}}

\* FastAPI parses the request body.
ApiParse ==
    /\ call.op = "api_send" /\ call.pc = "new"
    /\ LET b == SendMessageRequest(call.args)
       IN  call' = IF b.ok
                   THEN [call EXCEPT !.built = b, !.pc = "built"]
                   ELSE [call EXCEPT !.built = b, !.pc = "done", !.status = 422,
                                     !.resp = RespInvalidRequest]
    /\ UNCHANGED <<now, ticks, cache, lastMark, env, hs>>

\* The route runs.
ApiSend ==
    /\ call.op = "api_send" /\ call.pc = "built"
    /\ \E outcome \in {"ok", "http_error"} :
         LET r == messages_send(call.provider, env.creds, call.built.msg, outcome)
         IN  call' = [call EXCEPT !.pc = "done", !.outcome = outcome, !.ret = r.ret,
                                  !.status = r.status, !.resp = r.resp]
    /\ UNCHANGED <<now, ticks, cache, lastMark, env, hs>>

NextApi == ApiParse \/ ApiSend

InitApi ==
    /\ InitState
    /\ env \in {DirectEnv(c) : c \in BOOLEAN}
    /\ call \in ApiCalls

SpecApi == InitApi /\ [][NextApi]_vars

(***************************************************************************)
(* Direct calls of verify_request.  secret is the value os.environ holds   *)
(* for the adapter's webhook secret (None when the variable is unset).     *)
(***************************************************************************)
WebhookSecrets ==
    {NoneV, Str(<<>>), Str(Secret), Str(<<"other">>), Str(<<"Bearer ">> \o Secret)}

AuthorizationHeaders ==
    {NoneV, Str(<<>>), Str(Secret), Str(<<"wrong">>), Str(<<"Bearer ">> \o Secret),
     Str(<<"Bearer ", "wrong">>), Str(<<"Bearer ">>), Str(<<"Bearer ", "Bearer ">> \o Secret),
     Str(Secret \o <<"x">>), Str(<<"bearer ">> \o Secret)}

VerifyCalls ==
    {[op |-> "verify_request", provider |-> p, secret |-> k, header |-> a, done |-> FALSE,
      ret |-> ""] :
        p \in {"loop", "twilio"}, k \in WebhookSecrets, a \in AuthorizationHeaders}

\* The attribute the adapter's constructor reads from the environment, as
\* text: empty when it is unset.
SecretText(secret) == IF Truthy(secret) THEN secret.v ELSE <<>>

LoopVerify ==
    /\ call.op = "verify_request" /\ ~call.done /\ call.provider = "loop"
    /\ call' = [call EXCEPT !.done = TRUE,
                            !.ret = IF verify_request(SecretText(call.secret), call.header)
                                    THEN "returned" ELSE "PermissionError"]
    /\ UNCHANGED <<now, ticks, cache, lastMark, env, hs>>

TwilioVerify ==
    /\ call.op = "verify_request" /\ ~call.done /\ call.provider = "twilio"
    /\ call' = [call EXCEPT !.done = TRUE,
                            !.ret = IF TwilioClient_verify_request(SecretText(call.secret),
                                                                   call.header)
                                    THEN "returned" ELSE "PermissionError"]
    /\ UNCHANGED <<now, ticks, cache, lastMark, env, hs>>

NextVerify == LoopVerify \/ TwilioVerify

InitVerify ==
    /\ InitState
    /\ env = DirectEnv(TRUE)
    /\ call \in VerifyCalls

SpecVerify == InitVerify /\ [][NextVerify]_vars

(***************************************************************************)
(* Direct calls of the registry.  The call record keeps                    *)
(*   registry  AdapterRegistry._registry                                   *)
(*   log       history: the register calls made so far, in order           *)
(*   made      the number of adapter instances constructed so far          *)
(*   got       the results of the get calls, each with the number of       *)
(*             register calls that preceded it                             *)
(***************************************************************************)
MaxRegisters == 2
MaxGets == 2

\* The names looked up, the names registered by the calls (one registered
\* at import, one not) and the classes registered by the calls.
ProviderNames == {"loop", "twilio", "dummy", "missing"}
RegisteredNames == {"loop", "dummy"}
AdapterClasses == {"TwilioClient", "DummyAdapter"}

RegistryCall == [op |-> "registry", registry |-> _registry, log |-> <<>>, made |-> 0, got |-> <<>>]

Register ==
    /\ call.op = "registry"
    /\ Len(call.log) < MaxRegisters
    /\ \E name \in RegisteredNames, adapter_cls \in AdapterClasses :
          call' = [call EXCEPT
                      !.registry = AdapterRegistry_register(@, name, adapter_cls),
                      !.log = Append(@, [name |-> name, cls |-> adapter_cls])]
    /\ UNCHANGED <<now, ticks, cache, lastMark, env, hs>>

GetAdapter ==
    /\ call.op = "registry"
    /\ Len(call.got) < MaxGets
    /\ \E name \in ProviderNames :
          LET r == AdapterRegistry_get(call.registry, name, call.made)
          IN  call' = [call EXCEPT
                          !.made = IF r.raised = "" THEN r.id ELSE @,
                          !.got = Append(@, [ret |-> r, after |-> Len(call.log)])]
    /\ UNCHANGED <<now, ticks, cache, lastMark, env, hs>>

NextRegistry == Register \/ GetAdapter

InitRegistry ==
    /\ InitState
    /\ env = DirectEnv(TRUE)
    /\ call = RegistryCall

SpecRegistry == InitRegistry /\ [][NextRegistry]_vars

(***************************************************************************)
(* Properties.                                                             *)
(***************************************************************************)
Done(h) == hs[h].pc = "done"
Began(h) == hs[h].pc # "idle"
SameRequest(a, b) == a # b /\ Began(a) /\ Began(b) /\ hs[a].req = hs[b].req
Overlap(a, b) == a \notin hs[b].prior /\ b \notin hs[a].prior
GenerationFailed(h) == hs[h].kind \in {"rag_raise", "llm_raise"}
Duplicate == RespIgnored("Message already processed recently")

\* The credentials of a request as text, and without a "Bearer " prefix.
TokenText(r) == IF r.token = NoneV THEN <<>> ELSE r.token.v
Unprefixed(t) == IF t # <<>> /\ Head(t) = "Bearer " THEN Tail(t) ELSE t

\* C1: deliveries of one inbound text message that are handled at the same
\* time (no time passes, neither handler returned before the other began)
\* make exactly one send attempt in total.
C1_OneSendWhenConcurrent ==
    \A a, b \in Handlers :
        (SameRequest(a, b) /\ Done(a) /\ Done(b) /\ Overlap(a, b) /\ ticks = 0)
            => Len(hs[a].sent) + Len(hs[b].sent) = 1

\* C2: when a text message that was processed is delivered again after the
\* first handler returned, all within the rate-limit window, the first
\* delivery made exactly one send, the second one is answered 200 ok /
\* ignored / duplicate without user lookup, reply generation, send or mark,
\* and the cache holds exactly one entry under the key.
C2_SecondDeliveryIgnored ==
    \A a, b \in Handlers :
        (SameRequest(a, b) /\ Done(a) /\ Done(b) /\ a \in hs[b].prior
           /\ hs[a].marked /\ now < RATE_LIMIT_WINDOW)
            => /\ Len(hs[a].sent) = 1
               /\ hs[b].dup /\ hs[b].status = 200 /\ hs[b].resp = Duplicate
               /\ hs[b].lookups = 0 /\ hs[b].gen = 0 /\ hs[b].sent = <<>>
               /\ ~hs[b].marked
               /\ hs[b].entries = 1

C2_Witness ==
    \E a, b \in Handlers :
        /\ SameRequest(a, b) /\ Done(a) /\ Done(b) /\ a \in hs[b].prior
        /\ hs[a].marked /\ now < RATE_LIMIT_WINDOW /\ now > 0
        /\ hs[b].resp = Duplicate /\ Len(hs[a].sent) = 1 /\ hs[a].sent[1].ok

\* C3: the duplicate check answers 'duplicate' exactly when the key was
\* marked less than RATE_LIMIT_WINDOW before it; and a repeat of a processed
\* message that arrives once the window has elapsed is processed again:
\* the generator is called, one reply is sent and the key is marked again.
C3_DuplicateIffWithinWindow ==
    \A b \in Handlers :
        /\ hs[b].checked => (hs[b].dup <=> hs[b].recent)
        /\ \A a \in Handlers :
              (SameRequest(a, b) /\ Done(b) /\ a \in hs[b].prior /\ hs[a].marked
                 /\ ~hs[b].recent)
                  => ~hs[b].dup /\ hs[b].gen = 1 /\ Len(hs[b].sent) = 1 /\ hs[b].marked

C3_Witness ==
    \E a, b \in Handlers :
        /\ SameRequest(a, b) /\ Done(a) /\ Done(b) /\ a \in hs[b].prior /\ hs[a].marked
        /\ now = RATE_LIMIT_WINDOW
        /\ ~hs[b].recent /\ ~hs[b].dup /\ hs[b].marked /\ hs[b].entries = 1
        /\ Len(hs[b].sent) = 1

\* The handler that just began was answered 401 and did nothing else.
Halted(h) ==
    /\ hs'[h].pc = "done" /\ hs'[h].status = 401 /\ hs'[h].resp.ok = FALSE
    /\ hs'[h].norm = 0 /\ hs'[h].lookups = 0 /\ hs'[h].gen = 0 /\ hs'[h].sent = <<>>
    /\ ~hs'[h].checked /\ ~hs'[h].marked
    /\ cache' = cache

\* C4 as stated: with a secret configured, a request whose bearer token is
\* missing or differs from the secret is answered 401 and nothing else
\* happens: no normalization, no reply generation, no send, cache unchanged.
C4_Original ==
    [][\A h \in Handlers :
          (hs[h].pc = "idle" /\ hs'[h].pc # "idle" /\ env.webhook_auth # <<>>
             /\ TokenText(hs'[h].req) # env.webhook_auth)
              => Halted(h)]_vars

\* C4 as amended: the same for a request whose bearer token is missing or,
\* with an optional "Bearer " prefix removed, differs from the secret.
C4_UnauthorizedHalts ==
    [][\A h \in Handlers :
          (hs[h].pc = "idle" /\ hs'[h].pc # "idle" /\ env.webhook_auth # <<>>
             /\ Unprefixed(TokenText(hs'[h].req)) # env.webhook_auth)
              => Halted(h)]_vars

C4_Witness ==
    \E a, b \in Handlers :
        /\ Done(a) /\ hs[a].req.token = NoneV /\ hs[a].status = 401
        /\ Done(b) /\ hs[b].req.token = Str(<<"wrong">>) /\ hs[b].status = 401
        /\ cache = {}

\* C5: when the reply generator returns R for a verified native inbound
\* text message, one send of R to the recipient is made and the response is
\* 200 with ok true, reply R, received_text the inbound text and
\* sent.message_id the provider's message id.
C5_ReplyInResponse ==
    \A h \in Handlers :
        (Done(h) /\ hs[h].kind = "ok" /\ hs[h].ev.alert_type = Inbound)
            => /\ Len(hs[h].sent) = 1
               /\ hs[h].sent[1].to = hs[h].ev.recipient
               /\ hs[h].sent[1].text = hs[h].generated
               /\ hs[h].status = 200 /\ hs[h].resp.ok = TRUE
               /\ "reply" \in DOMAIN hs[h].resp /\ hs[h].resp.reply = hs[h].generated
               /\ "received_text" \in DOMAIN hs[h].resp
               /\ hs[h].resp.received_text = hs[h].ev.text
               /\ "sent" \in DOMAIN hs[h].resp
               /\ hs[h].resp.sent.message_id = hs[h].sent[1].message_id

\* C6: when the provider answers the send of a generated reply with an HTTP
\* error, the webhook response has status 502.
C6_SendFailureIs502 ==
    \A h \in Handlers :
        (Done(h) /\ hs[h].kind = "ok" /\ Len(hs[h].sent) = 1
           /\ hs[h].sent[1].posted /\ ~hs[h].sent[1].ok)
            => hs[h].status = 502

\* The request of handler h names a registered provider; its adapter
\* accepts the request's token.
Known(h) == hs[h].req.provider \in DOMAIN _registry
Verified(h) == Known(h) /\ verify_request(env.webhook_auth, hs[h].req.token)

C8_ApologyOnGenerationFailure ==
    \A h \in Handlers :
        /\ (Began(h) /\ GenerationFailed(h)) => hs[h].marked /\ hs[h].pc \in {"send", "done"}
        /\ (Done(h) /\ GenerationFailed(h))
              => /\ Len(hs[h].sent) = 1
                 /\ hs[h].sent[1].text = ApologyReply
                 /\ hs[h].sent[1].to = hs[h].ev.recipient
                 /\ hs[h].status = 200 /\ hs[h].resp.ok = TRUE

C8_Witness ==
    \E h \in Handlers :
        /\ Done(h) /\ hs[h].kind = "llm_raise" /\ hs[h].marked /\ hs[h].status = 200
        /\ Len(hs[h].sent) = 1 /\ hs[h].sent[1].posted /\ ~hs[h].sent[1].ok
        /\ \E e \in cache : e.key = KeyOf(hs[h])

\* C9: a verified internal-shape body with text and from.address gets,
\* unless it is a duplicate or generation fails, a reply generated and sent
\* to that address, and the response carries the reply and the sent
\* message id.
C9_InternalShapeReply ==
    \A h \in Handlers :
        (Done(h) /\ hs[h].req.body = BodyInternal
           /\ verify_request(env.webhook_auth, hs[h].req.token)
           /\ ~hs[h].dup /\ ~GenerationFailed(h))
            => /\ hs[h].kind = "ok"
               /\ Len(hs[h].sent) = 1
               /\ hs[h].sent[1].to = Str(RcpB)
               /\ "reply" \in DOMAIN hs[h].resp /\ hs[h].resp.reply = hs[h].generated
               /\ "sent" \in DOMAIN hs[h].resp
               /\ hs[h].resp.sent.message_id = hs[h].sent[1].message_id

Normalized(h) == Began(h) /\ hs[h].ev # NoResp

\* C11: a verified inbound event whose message_type is reaction causes no
\* send, no user lookup, no reply generation, no duplicate check and no
\* mark; the handler returns at once with 200, ok true, ignored, and the
\* reason that no response is needed.
C11_ReactionNoResponse ==
    \A h \in Handlers :
        (Normalized(h) /\ hs[h].ev.message_type = Str(<<"reaction">>))
            => /\ hs[h].pc = "done" /\ hs[h].sent = <<>>
               /\ hs[h].lookups = 0 /\ hs[h].gen = 0
               /\ ~hs[h].checked /\ ~hs[h].marked
               /\ hs[h].status = 200
               /\ hs[h].resp = RespIgnored("Reaction message - no response needed")
               /\ \A e \in cache : e.key # KeyOf(hs[h])

C11_Witness ==
    \E h \in Handlers :
        /\ Done(h) /\ hs[h].req.body = BodyReaction
        /\ hs[h].ev.reaction = Str(<<"like">>) /\ Truthy(hs[h].ev.recipient)
        /\ hs[h].sent = <<>> /\ hs[h].status = 200

\* C12: a verified event whose alert_type is set and is not message_inbound
\* is dropped early whatever its message_type, text or recipient: the
\* handler returns at once, nothing is sent and nothing is marked.
C12_NonMessageAlertDropped ==
    \A h \in Handlers :
        (Normalized(h) /\ Truthy(hs[h].ev.alert_type) /\ hs[h].ev.alert_type # Inbound)
            => /\ hs[h].pc = "done" /\ hs[h].sent = <<>>
               /\ hs[h].gen = 0 /\ ~hs[h].marked

\* C13: a verified event whose recipient equals the bot's sender identity,
\* ignoring case, is dropped before any reply work: the handler returns at
\* once, nothing is sent (no canned audio or non-text reply either), no
\* reply is generated and nothing is marked.
C13_FromBotDropped ==
    \A h \in Handlers :
        (Normalized(h) /\ Truthy(hs[h].ev.recipient)
           /\ Lower(hs[h].ev.recipient.v) = Lower(BotSender))
            => /\ hs[h].pc = "done" /\ hs[h].sent = <<>>
               /\ hs[h].gen = 0 /\ ~hs[h].marked

\* C14: a verified message event that reaches the duplicate check and is
\* not a duplicate, with a known recipient and a text that is empty after
\* cleanup, is marked processed without the reply generator being invoked,
\* and gets exactly one send: the canned greeting, to the recipient.
C14_EmptyTextGreeting ==
    \A h \in Handlers :
        (hs[h].checked /\ ~hs[h].dup /\ Truthy(hs[h].ev.recipient)
           /\ Strip(hs[h].cleaned) = <<>> /\ hs[h].pc \in {"send", "done"})
            => /\ hs[h].gen = 0 /\ hs[h].kind = ""
               /\ hs[h].marked /\ \E e \in cache : e.key = KeyOf(hs[h])
               /\ hs[h].reply = GreetingReply
               /\ Done(h) => /\ Len(hs[h].sent) = 1
                              /\ hs[h].sent[1].text = GreetingReply
                              /\ hs[h].sent[1].to = hs[h].ev.recipient
                              /\ hs[h].status = 200

C14_Witness ==
    \E h \in Handlers :
        /\ Done(h) /\ hs[h].req.body = BodyEmptyText /\ hs[h].ev.text # <<>>
        /\ hs[h].cleaned = <<>> /\ hs[h].marked /\ hs[h].gen = 0
        /\ Len(hs[h].sent) = 1 /\ hs[h].sent[1].text = GreetingReply /\ hs[h].sent[1].ok

\* A finished direct call of normalize_event on the given provider.
Normalized_by(provider) ==
    call.op = "normalize_event" /\ call.provider = provider /\ call.done

\* C15: for both adapters and every JSON-like body, fields of the wrong
\* type or nesting included, normalize_event returns a NormalizedEvent
\* (whose text is a string) and does not raise.
C15_NormalizeNeverRaises ==
    (call.op = "normalize_event" /\ call.done) => call.ret.ok

\* The value at a path of keys in a JSON value (None when there is none).
RECURSIVE At(_, _)
At(x, path) ==
    IF path = <<>> THEN x
    ELSE IF IsDict(x) THEN At(Get(x.v, Head(path)), Tail(path))
    ELSE NoneV

\* A non-empty string x of the body is the value f of the event.
Copied(x, f) == (IsStr(x) /\ Truthy(x)) => f = x

\* The event ev reads the native fields of body b.
NativeRead(b, ev) ==
    /\ ev.alert_type = At(b, <<"alert_type">>)
    /\ Copied(At(b, <<"text">>), Str(ev.text))
    /\ ~Truthy(At(b, <<"text">>)) => ev.text = <<>>
    /\ Copied(At(b, <<"recipient">>), ev.recipient)
    /\ Copied(At(b, <<"recipient", "address">>), ev.recipient)
    /\ ~Truthy(At(b, <<"recipient">>)) => ev.recipient = NoneV
    /\ Copied(At(b, <<"message_id">>), ev.message_id)
    /\ Copied(At(b, <<"group">>), ev.group_id)
    /\ Copied(At(b, <<"group", "group_id">>), ev.group_id)
    /\ IsOptStr(ev.recipient) /\ IsOptStr(ev.message_id) /\ IsOptStr(ev.group_id)

\* The event ev reads the internal fields of body b.
InternalRead(b, ev) ==
    /\ ev.alert_type = At(b, <<"event">>)
    /\ Copied(At(b, <<"data", "message", "text">>), Str(ev.text))
    /\ ~Truthy(At(b, <<"data", "message", "text">>)) => ev.text = <<>>
    /\ Copied(At(b, <<"data", "message", "from">>), ev.recipient)
    /\ Copied(At(b, <<"data", "message", "from", "address">>), ev.recipient)
    /\ ~Truthy(At(b, <<"data", "message", "from">>)) => ev.recipient = NoneV
    /\ Copied(At(b, <<"data", "message", "id">>), ev.message_id)
    /\ Copied(At(b, <<"data", "conversationId">>), ev.group_id)
    /\ IsOptStr(ev.recipient) /\ IsOptStr(ev.message_id) /\ IsOptStr(ev.group_id)
    /\ ev.message_type = NoneV /\ ev.reaction = NoneV

\* C16: the Loop adapter reads a body with a truthy alert_type as the
\* native shape (text, recipient, message_id, group.group_id) and any other
\* body as the internal shape (data.message.text, data.message.from.address
\* unwrapped to a string, data.message.id, data.conversationId as
\* group_id); with a string event name and string group id it returns.
C16_BothShapesCanonical ==
    (Normalized_by("loop") /\ IsDict(call.body))
        => IF Truthy(At(call.body, <<"alert_type">>))
           THEN /\ (IsStr(At(call.body, <<"alert_type">>))
                      /\ IsOptStr(At(call.body, <<"group", "group_id">>))) => call.ret.ok
                /\ call.ret.ok => NativeRead(call.body, call.ret.ev)
           ELSE /\ IsOptStr(At(call.body, <<"event">>)) => call.ret.ok
                /\ call.ret.ok => InternalRead(call.body, call.ret.ev)

C16_Witness ==
    /\ Normalized_by("loop") /\ call.ret.ok
    /\ call.body = Dict([event |-> Str(<<"message.created">>),
                          data |-> Dict([conversationId |-> Str(<<"conv_123">>),
                                         message |-> Dict([id |-> Str(<<"msg_abc">>),
                                                           text |-> Str(<<"Hello">>),
                                                           from |-> AddressB])])])
    /\ call.ret.ev.text = <<"Hello">> /\ call.ret.ev.recipient = Str(RcpB)
    /\ call.ret.ev.message_id = Str(<<"msg_abc">>)
    /\ call.ret.ev.group_id = Str(<<"conv_123">>)

\* A direct send_message call: its message was built / the call is over.
SendBuilt == call.op = "send_message" /\ call.pc \in {"built", "done"} /\ call.built.ok
SendDone == SendBuilt /\ call.pc = "done"
NoTarget(a) == ~Truthy(a.recipient) /\ ~Truthy(a.group_id)
BothTargets(a) == Truthy(a.recipient) /\ Truthy(a.group_id)

\* C17: for every message with neither recipient nor group_id,
\* ensure_valid_target fails, and an adapter's send_message raises before
\* any network call is made; the error is a ValueError when the adapter's
\* credentials are configured.
C17_NoTargetRaisesBeforeNetwork ==
    (SendBuilt /\ NoTarget(call.args))
        => /\ ~OutboundMessage_ensure_valid_target(call.built.msg)
           /\ call.pc = "done"
                => /\ call.ret.raised /\ ~call.ret.posted
                   /\ env.creds => call.ret.error = "ValueError"

C17_Witness ==
    /\ SendDone /\ NoTarget(call.args) /\ call.provider = "loop" /\ env.creds
    /\ call.args.kind = "text" /\ call.args.recipient = NoneV
    /\ call.ret.raised /\ call.ret.error = "ValueError"

\* C18 as stated: a message with both recipient and group_id set is
\* rejected rather than sent.
C18_Original ==
    (SendDone /\ BothTargets(call.args)) => ~call.ret.posted

\* C18 as amended: a message needs at least one of recipient and group_id;
\* with credentials configured the Loop adapter posts a built message
\* exactly when it has a target, to the group when group_id is set (the
\* recipient is then left out) and to the recipient otherwise; the Twilio
\* adapter posts a text message exactly when it has a recipient, to that
\* recipient.
C18_AtLeastOneTarget ==
    (SendDone /\ env.creds)
        => LET m == call.built.msg
               r == call.ret
           IN  IF call.provider = "loop"
               THEN /\ r.posted <=> ~NoTarget(m)
                    /\ (r.posted /\ Truthy(m.group_id))
                          => /\ "group" \in DOMAIN r.payload
                             /\ r.payload.group = m.group_id
                             /\ "recipient" \notin DOMAIN r.payload
                    /\ (r.posted /\ ~Truthy(m.group_id))
                          => /\ "recipient" \in DOMAIN r.payload
                             /\ r.payload.recipient = m.recipient
                             /\ "group" \notin DOMAIN r.payload
               ELSE /\ r.posted <=> (m.kind = "text" /\ Truthy(m.recipient))
                    /\ r.posted => r.payload.To = m.recipient

C18_Witness ==
    /\ SendDone /\ env.creds /\ call.provider = "loop" /\ BothTargets(call.args)
    /\ call.ret.posted /\ ~call.ret.raised
    /\ call.ret.payload.group = Str(<<"g1">>)

\* C19: with service SMS, building a text message with subject, effect or
\* reply_to_id set fails, and building any reaction or audio message fails;
\* the call ends there, before the adapter is reached.
C19_SmsConstraints ==
    (call.op = "send_message" /\ call.pc # "new" /\ call.args.service = Sms
       /\ \/ call.args.kind \in {"reaction", "audio"}
          \/ call.args.subject # NoneV
          \/ call.args.effect # NoneV
          \/ call.args.reply_to_id # NoneV)
        => /\ ~call.built.ok /\ call.built.error = "ValueError"
           /\ call.pc = "done" /\ call.ret = NoResp

C19_Witness ==
    /\ call.op = "send_message" /\ call.pc = "done" /\ ~call.built.ok
    /\ call.args.kind = "text" /\ call.args.service = Sms
    /\ call.args.reply_to_id # NoneV /\ call.args.subject = NoneV /\ call.args.effect = NoneV

\* What C20 requires of a URL: https, at most 256 characters, an image
\* extension at its end.
IsHttps(u) == u # <<>> /\ u[1] = "https://"
IsImage(u) == u # <<>> /\ LowerTok(u[Len(u)]) \in {".png", ".jpg", ".jpeg", ".gif", ".webp"}
AcceptableList(v) ==
    /\ Len(v) <= 3
    /\ \A i \in 1..Len(v) : IsHttps(v[i]) /\ StrLen(v[i]) <= 256 /\ IsImage(v[i])

\* C20: a text message with a list of attachments is built exactly when
\* the list has at most 3 URLs and every URL is https, at most 256
\* characters long and ends in an image extension.
C20_AttachmentValidation ==
    (call.op = "send_message" /\ call.pc # "new" /\ call.args.kind = "text"
       /\ call.args.attachments # NoneV /\ call.args.service = NoneV)
        => (call.built.ok <=> AcceptableList(call.args.attachments.v))

C20_Witness ==
    /\ SendDone /\ call.ret.posted
    /\ call.args.attachments =
          List(<<<<"https://", "example.com/p", ".png">>,
                 <<"https://", "example.com/p", ".JPEG">>,
                 <<"https://", "<243 characters>", ".webp">>>>)
    /\ call.ret.payload.attachments = call.args.attachments

\* C21: with the provider credentials missing, every send the webhook
\* handler attempts raises the configuration error before any network
\* call, and the handler, the caller of the send, prints that error.
C21_MissingCredentialsRaised ==
    \A h \in Handlers :
        ~env.creds
            => \A i \in 1..Len(hs[h].sent) :
                  /\ ~hs[h].sent[i].posted /\ ~hs[h].sent[i].ok
                  /\ hs[h].sent[i].error = MissingCredentials
                  /\ hs[h].sent[i].logged

C21_Witness ==
    \E h \in Handlers :
        /\ ~env.creds /\ Done(h) /\ hs[h].kind = "ok" /\ Len(hs[h].sent) = 1
        /\ hs[h].sent[1].error = MissingCredentials /\ hs[h].sent[1].logged
        /\ hs[h].status = 200

\* The class last registered under name by the first k register calls of
\* a registry call record, "" when there is none: the registrations made
\* at import ("loop", "twilio") count as made before the first call.
RECURSIVE Latest(_, _, _)
Latest(log, name, k) ==
    IF k = 0
    THEN IF name = "loop" THEN "LoopClient"
         ELSE IF name = "twilio" THEN "TwilioClient" ELSE ""
    ELSE IF log[k].name = name THEN log[k].cls ELSE Latest(log, name, k - 1)

\* C22: after any sequence of register calls, get(name) returns a new
\* instance of the class most recently registered under name, raises
\* KeyError exactly when name was never registered, and every name holds
\* the class of its own most recent registration whatever was registered
\* under other names.
C22_RegistryGetRegister ==
    call.op = "registry"
        => /\ \A i \in 1..Len(call.got) :
                 LET g == call.got[i]
                     latest == Latest(call.log, g.ret.name, g.after)
                 IN  /\ (g.ret.raised = "KeyError") <=> (latest = "")
                     /\ g.ret.raised \in {"", "KeyError"}
                     /\ g.ret.raised = "" => g.ret.cls = latest
                     /\ \A j \in 1..Len(call.got) :
                            (j # i /\ g.ret.raised = "" /\ call.got[j].ret.raised = "")
                                => call.got[j].ret.id # g.ret.id
           /\ \A name \in ProviderNames :
                 LET latest == Latest(call.log, name, Len(call.log))
                 IN  /\ (name \in DOMAIN call.registry) <=> (latest # "")
                     /\ name \in DOMAIN call.registry => call.registry[name] = latest

\* "loop" is registered again with another class after "dummy" was
\* registered, and both gets of "loop", one before and one after, succeed.
C22_Witness ==
    /\ call.op = "registry"
    /\ Len(call.log) = 2 /\ Len(call.got) = 2
    /\ call.log[2] = [name |-> "loop", cls |-> "DummyAdapter"]
    /\ call.got[1].ret.name = "loop" /\ call.got[1].after = 1
    /\ call.got[1].ret.cls = "LoopClient"
    /\ call.got[2].ret.name = "loop" /\ call.got[2].after = 2
    /\ call.got[2].ret.cls = "DummyAdapter"

\* C23: a webhook request that names a provider without a registered
\* adapter is answered with a client error (4xx) and causes no send, no
\* duplicate check and no mark.
C23_UnknownProviderClientError ==
    \A h \in Handlers :
        (Done(h) /\ ~Known(h))
            => /\ hs[h].status \in 400..499
               /\ hs[h].sent = <<>> /\ ~hs[h].checked /\ ~hs[h].marked

\* A call of the send API is over; it named a registered provider.
ApiDone == call.op = "api_send" /\ call.pc = "done"
ApiKnown == call.provider \in DOMAIN _registry

\* C24: in the send API, for every registered provider, when the provider
\* rejects the posted message the response is 502 and does not say ok.
C24_ProviderRejectionIs502 ==
    (ApiDone /\ ApiKnown /\ call.ret # NoResp /\ call.ret.posted /\ call.outcome = "http_error")
        => call.status = 502 /\ call.resp.ok = FALSE

\* C25: in the send API, a request with a validation error (a message the
\* request model rejects, or a message without a target) is answered
\* with a client error (4xx) and nothing is posted to the provider.
C25_ValidationIsClientError ==
    (/\ ApiDone /\ ApiKnown
     /\ \/ ~call.built.ok
        \/ ~OutboundMessage_ensure_valid_target(call.built.msg))
        => /\ call.status \in 400..499
           /\ call.ret = NoResp \/ ~call.ret.posted

\* C26: verify_request of either adapter returns for every request, one
\* without a token included, when the adapter's webhook secret is unset or
\* empty; with a secret it returns exactly for the tokens that equal the
\* secret once a leading "Bearer " is removed, and raises PermissionError
\* for all others.
C26_VerifyRequest ==
    (call.op = "verify_request" /\ call.done)
        => LET token == IF call.header = NoneV THEN <<>> ELSE call.header.v
           IN  /\ call.ret \in {"returned", "PermissionError"}
               /\ call.secret \in {NoneV, Str(<<>>)} => call.ret = "returned"
               /\ call.secret \notin {NoneV, Str(<<>>)}
                     => (call.ret = "returned" <=> Unprefixed(token) = call.secret.v)

C26_Witness ==
    /\ call.op = "verify_request" /\ call.done /\ call.provider = "twilio"
    /\ call.secret = Str(Secret) /\ call.header = Str(<<"Bearer ">> \o Secret)
    /\ call.ret = "returned"

\* C27: every step in which a handler makes its duplicate check or marks
\* its message leaves no entry in the cache that is older than
\* MESSAGE_CACHE_TTL.
C27_PurgeOnCheckAndMark ==
    [][\A h \in Handlers :
          (\/ ~hs[h].checked /\ hs'[h].checked
           \/ ~hs[h].marked /\ hs'[h].marked)
              => \A e \in cache' : ~(now' - e.ts > MESSAGE_CACHE_TTL)]_vars

\* The words of a text: its tokens other than whitespace, in lower case.
RECURSIVE Words(_)
Words(s) ==
    IF s = <<>> THEN <<>>
    ELSE IF IsSpace(Head(s)) THEN Words(Tail(s))
    ELSE <<LowerTok(Head(s))>> \o Words(Tail(s))

\* Deliveries a and b carry different texts with the same words, under one
\* message_id and one recipient.
WhitespaceVariants(a, b) ==
    /\ Began(a) /\ Began(b)
    /\ hs[a].req.body.text # hs[b].req.body.text
    /\ Words(hs[a].req.body.text.v) = Words(hs[b].req.body.text.v)
    /\ hs[a].req.body.message_id = hs[b].req.body.message_id
    /\ hs[a].req.body.recipient = hs[b].req.body.recipient

\* C28: the text is cleaned before the duplicate check, so deliveries under
\* one message_id and recipient whose texts differ only in whitespace or
\* letter case have one key, and the second one, delivered within the
\* rate-limit window after the first was processed, is ignored as a
\* duplicate.
C28_WhitespaceVariantsCollapse ==
    \A a, b \in Handlers :
        (WhitespaceVariants(a, b) /\ hs[a].checked /\ hs[b].checked)
            => /\ KeyOf(hs[a]) = KeyOf(hs[b])
               /\ (Done(a) /\ hs[a].marked /\ a \in hs[b].prior /\ now < RATE_LIMIT_WINDOW)
                     => /\ hs[b].dup /\ hs[b].resp = Duplicate
                        /\ hs[b].gen = 0 /\ hs[b].sent = <<>>

C28_Witness ==
    \E a, b \in Handlers :
        /\ WhitespaceVariants(a, b) /\ Done(a) /\ hs[a].marked /\ a \in hs[b].prior
        /\ now < RATE_LIMIT_WINDOW /\ now > 0
        /\ Done(b) /\ hs[b].dup /\ hs[b].resp = Duplicate

\* C29: when normalize_event raises inside the webhook handler, the
\* response is 200 with ok true and the note "Failed to normalize event",
\* and the handler makes no user lookup, no reply generation, no send, no
\* duplicate check and no mark.
C29_NormalizeFailureIsSoft ==
    \A h \in Handlers :
        (Done(h) /\ Verified(h) /\ ~normalize_event(hs[h].req.body).ok)
            => /\ hs[h].status = 200 /\ hs[h].resp = RespNormError /\ hs[h].resp.ok = TRUE
               /\ hs[h].norm = 1 /\ hs[h].lookups = 0 /\ hs[h].gen = 0
               /\ hs[h].sent = <<>> /\ ~hs[h].checked /\ ~hs[h].marked

C29_Witness ==
    \E h \in Handlers :
        /\ Done(h) /\ hs[h].req.body = BodyBadAlert /\ hs[h].resp = RespNormError
        /\ hs[h].status = 200 /\ cache = {}

\* The handler returned for an event of a type that is neither text nor
\* reaction: audio, or one of the other types.
NonText(h) ==
    /\ Done(h) /\ Normalized(h)
    /\ hs[h].ev.message_type \notin {NoneV, Str(<<"text">>), Str(<<"reaction">>)}
IsAudio(h) == hs[h].ev.message_type = Str(<<"audio">>)

\* The handler did not call the generator and answered 200 ok / ignored.
AnsweredIgnored(h) ==
    /\ hs[h].gen = 0 /\ hs[h].lookups = 0
    /\ hs[h].status = 200 /\ hs[h].resp.ok = TRUE
    /\ "ignored" \in DOMAIN hs[h].resp /\ hs[h].resp.ignored = TRUE

\* C30 as stated: an audio event with a recipient gets one canned reply,
\* and an event of any other non-text, non-reaction type gets one generic
\* reply whenever a recipient is known; the generator is not invoked and
\* the response is ok, ignored.
C30_Original ==
    \A h \in Handlers :
        (NonText(h) /\ Truthy(hs[h].ev.recipient))
            => /\ AnsweredIgnored(h)
               /\ Len(hs[h].sent) = 1
               /\ hs[h].sent[1].text = IF IsAudio(h) THEN AudioReply ELSE NonTextReply

\* C30: an audio event with a recipient gets one canned reply; an event of
\* any other non-text, non-reaction type gets one generic reply when a
\* recipient is known and the event has no text, and no reply at all when
\* it has text; the generator is not invoked and the response is ok,
\* ignored.
C30_NonTextReplies ==
    \A h \in Handlers :
        (NonText(h) /\ Truthy(hs[h].ev.recipient))
            => /\ AnsweredIgnored(h)
               /\ IsAudio(h) => Len(hs[h].sent) = 1 /\ hs[h].sent[1].text = AudioReply
               /\ (~IsAudio(h) /\ hs[h].ev.text = <<>>)
                     => Len(hs[h].sent) = 1 /\ hs[h].sent[1].text = NonTextReply
               /\ (~IsAudio(h) /\ hs[h].ev.text # <<>>) => hs[h].sent = <<>>

C30_Witness ==
    \E a, b \in Handlers :
        /\ NonText(a) /\ hs[a].req.body = BodyStickerText /\ hs[a].sent = <<>>
        /\ NonText(b) /\ hs[b].req.body = BodySticker /\ Len(hs[b].sent) = 1
        /\ hs[b].sent[1].text = NonTextReply

\* The optional field of message m is unset or empty.
Unset(x) ==
    \/ x = NoneV
    \/ x.t \in {"str", "list"} /\ x.v = <<>>
    \/ x.t = "num" /\ x.v = <<"0">>

\* C31: the Loop payload built from a message has no key for an optional
\* field that is unset or empty (reply_to_id, passthrough, service,
\* timeout, subject, attachments, effect, the text of an audio message),
\* and the payload of a reaction has no reply_to_id even when the message
\* carries one: its target is sent as message_id.
C31_OptionalFieldsOnlyWhenSet ==
    (SendDone /\ call.provider = "loop" /\ call.ret.posted)
        => LET m == call.built.msg
               p == call.ret.payload
           IN  /\ \A k \in {"reply_to_id", "passthrough", "service", "subject",
                              "attachments", "effect"} :
                      k \in DOMAIN p => ~Unset(m[k]) /\ p[k] = m[k]
               /\ "timeout" \in DOMAIN p
                     => ~Unset(m.timeout_seconds) /\ p.timeout = m.timeout_seconds
               /\ (m.kind = "audio" /\ "text" \in DOMAIN p) => ~Unset(m.text)
               /\ m.kind = "reaction"
                     => /\ "reply_to_id" \notin DOMAIN p
                        /\ p.message_id = m.target_message_id

C31_Witness ==
    /\ SendDone /\ call.provider = "loop" /\ call.ret.posted
    /\ call.built.msg.kind = "reaction"
    /\ call.built.msg.reply_to_id = Str(<<"m1">>)
    /\ call.built.msg.passthrough = Str(<<>>)
    /\ call.built.msg.timeout_seconds = Num(<<"30">>)
    /\ DOMAIN call.ret.payload = {"recipient", "timeout", "reaction", "message_id"}

\* The member of values that raw names in some letter case, None when raw
\* is not a string or names no member.
Member(raw, values) ==
    IF IsStr(raw) /\ \E v \in values : Lower(raw.v) = <<v>>
    THEN Str(Lower(raw.v))
    ELSE NoneV

\* A body without its message_type and reaction.
WithoutEnums(b) == Dict([k \in DOMAIN b.v \ {"message_type", "reaction"} |-> b.v[k]])

\* C32: in the native shape, message_type and reaction are matched
\* against the enum values whatever their letter case; a value that is
\* not a string, names no member or is missing becomes None, and no value
\* of the two fields makes normalize_event raise.
C32_EnumsParsedLeniently ==
    (Normalized_by("loop") /\ IsDict(call.body) /\ Truthy(Get(call.body.v, "alert_type")))
        => /\ call.ret.ok = LoopClient_normalize_event(WithoutEnums(call.body)).ok
           /\ call.ret.ok
                 => /\ call.ret.ev.message_type
                          = Member(Get(call.body.v, "message_type"), MessageType)
                    /\ call.ret.ev.reaction = Member(Get(call.body.v, "reaction"), ReactionType)

C32_Witness ==
    /\ Normalized_by("loop") /\ IsDict(call.body)
    /\ Get(call.body.v, "message_type") = Str(<<"TEXT">>)
    /\ Get(call.body.v, "reaction") = FiveV
    /\ call.ret.ok
    /\ call.ret.ev.message_type = Str(<<"text">>) /\ call.ret.ev.reaction = NoneV

\* C33: an invocation of the webhook handler makes at most one send
\* attempt on every path; it makes exactly one when it returns after the
\* canned audio or non-text reply, a generated reply, the apology or the
\* greeting fell due, and a failed send of a generated reply is not
\* followed by a send of the apology.
C33_AtMostOneSend ==
    \A h \in Handlers :
        /\ Len(hs[h].sent) <= 1
        /\ (Done(h) /\ hs[h].reply # <<>>) => Len(hs[h].sent) = 1
        /\ (Done(h) /\ hs[h].kind = "ok")
              => \A i \in 1..Len(hs[h].sent) : hs[h].sent[i].text # ApologyReply

C33_Witness ==
    \E h \in Handlers :
        /\ Done(h) /\ hs[h].kind = "ok" /\ Len(hs[h].sent) = 1
        /\ hs[h].sent[1].posted /\ ~hs[h].sent[1].ok
        /\ hs[h].sent[1].text = hs[h].generated

\* C34: a message is marked before its reply is sent: a handler that is
\* about to send, or has sent, after the duplicate check has marked its
\* key; so when the send of a generated reply failed, a redelivery of the
\* same request within the rate-limit window is ignored as a duplicate
\* without reply generation and without a send.
C34_MarkedBeforeSend ==
    /\ \A h \in Handlers :
          (hs[h].checked /\ (hs[h].pc = "send" \/ hs[h].sent # <<>>))
              => /\ hs[h].marked
                 /\ \E m \in lastMark : m.key = KeyOf(hs[h])
    /\ \A a, b \in Handlers :
          (/\ SameRequest(a, b) /\ Done(a) /\ Done(b) /\ a \in hs[b].prior
           /\ hs[a].kind = "ok" /\ Len(hs[a].sent) = 1 /\ ~hs[a].sent[1].ok
           /\ now < RATE_LIMIT_WINDOW)
              => /\ hs[b].dup /\ hs[b].resp = Duplicate
                 /\ hs[b].gen = 0 /\ hs[b].sent = <<>>

C34_Witness ==
    \E a, b \in Handlers :
        /\ SameRequest(a, b) /\ Done(a) /\ Done(b) /\ a \in hs[b].prior
        /\ hs[a].kind = "ok" /\ Len(hs[a].sent) = 1
        /\ hs[a].sent[1].posted /\ ~hs[a].sent[1].ok
        /\ now < RATE_LIMIT_WINDOW
        /\ hs[b].resp = Duplicate /\ hs[b].sent = <<>>

\* The event of a handler has no recipient; a key carries the sentinel
\* that stands for a missing recipient.
Anonymous(h) == Normalized(h) /\ ~Truthy(hs[h].ev.recipient)
CarriesSentinel(key) == \E i \in 1..Len(key.head) : key.head[i] = "no-recipient"

\* C35 as stated: an event without a recipient never marks; no cache key
\* carries the no-recipient sentinel and an event without a recipient is
\* never reported as a duplicate.
C35_Original ==
    /\ \A h \in Handlers : Anonymous(h) => ~hs[h].marked /\ ~hs[h].dup
    /\ \A e \in cache : ~CarriesSentinel(e.key)

\* C35: an event without a recipient never marks, and every cache entry
\* was written for an event with a recipient; a cache key carries the
\* no-recipient sentinel, and an event without a recipient is reported as
\* a duplicate, only when a processed event's recipient was the text
\* "no-recipient" itself.
C35_OnlyRecipientsMark ==
    /\ \A h \in Handlers : Anonymous(h) => ~hs[h].marked
    /\ \A e \in cache :
          /\ \E h \in Handlers :
                hs[h].marked /\ KeyOf(hs[h]) = e.key /\ Truthy(hs[h].ev.recipient)
          /\ CarriesSentinel(e.key)
                => \E h \in Handlers :
                      /\ hs[h].marked /\ KeyOf(hs[h]) = e.key
                      /\ hs[h].ev.recipient = Str(<<"no-recipient">>)
    /\ \A b \in Handlers :
          (Anonymous(b) /\ hs[b].dup)
              => \E a \in Handlers :
                    /\ hs[a].marked /\ KeyOf(hs[a]) = KeyOf(hs[b])
                    /\ hs[a].ev.recipient = Str(<<"no-recipient">>)

C35_Witness ==
    \E a, b \in Handlers :
        /\ Done(a) /\ hs[a].marked /\ hs[a].ev.recipient = Str(<<"no-recipient">>)
        /\ Done(b) /\ Anonymous(b) /\ hs[b].dup /\ ~hs[b].marked
        /\ hs[b].resp = Duplicate

\* A handler makes its duplicate check, or marks its message, in this step.
Looks(h) == ~hs[h].checked /\ hs'[h].checked
Marks(h) == ~hs[h].marked /\ hs'[h].marked

\* C36: a step with a duplicate check adds no entry to the cache and
\* changes no timestamp; a mark sets the timestamp of its own key to the
\* current time, replacing the prior entry, and leaves the other entries as
\* they were; no other step changes the cache; and a check that answers
\* 'duplicate' found the timestamp of the last mark of the key, less than
\* RATE_LIMIT_WINDOW old.
C36_OnlyMarkSetsTimestamps ==
    [][/\ \A h \in Handlers : Looks(h) => cache' \subseteq cache
       /\ \A h \in Handlers :
             Marks(h) => cache' = {e \in cache : e.key # KeyOf(hs[h])}
                                    \cup {[key |-> KeyOf(hs[h]), ts |-> now]}
       /\ (\A h \in Handlers : ~Looks(h) /\ ~Marks(h)) => cache' = cache
       /\ \A h \in Handlers :
             (Looks(h) /\ hs'[h].dup)
                 => \E e \in cache' :
                       /\ e.key = KeyOf(hs'[h]) /\ e \in lastMark
                       /\ now - e.ts < RATE_LIMIT_WINDOW]_vars

C36_Witness ==
    \E a, b \in Handlers :
        /\ Done(a) /\ hs[a].marked /\ Done(b) /\ a \in hs[b].prior
        /\ hs[b].dup /\ hs[b].resp = Duplicate
        /\ now > 0
        /\ \E e \in cache : e.key = KeyOf(hs[b]) /\ e.ts = 0

\* The comparison of the duplicate check on a cache that was not purged.
Unpurged(c, t, key) == HasKey(c, key) /\ t - Lookup(c, key) < RATE_LIMIT_WINDOW

\* C37: at any time, the purge keeps every entry that is younger than
\* RATE_LIMIT_WINDOW, and for the message of every handler that made the
\* duplicate check and for every key in the cache, the check answers what
\* the comparison on the unpurged cache answers.
C37_PurgeKeepsOutcome ==
    /\ \A e \in cache :
          /\ now - e.ts < RATE_LIMIT_WINDOW => e \in _cleanup_old_messages(cache, now)
          /\ Unpurged(_cleanup_old_messages(cache, now), now, e.key)
                <=> Unpurged(cache, now, e.key)
    /\ \A h \in Handlers :
          hs[h].checked
              => (_is_message_processed(cache, now, hs[h].ev.message_id,
                                        hs[h].ev.recipient, hs[h].cleaned)
                    <=> Unpurged(cache, now, KeyOf(hs[h])))

C37_Witness ==
    /\ _cleanup_old_messages(cache, now) # cache
    /\ \E h \in Handlers :
          /\ hs[h].checked /\ hs[h].marked
          /\ Unpurged(cache, now, KeyOf(hs[h]))
          /\ _is_message_processed(cache, now, hs[h].ev.message_id,
                                   hs[h].ev.recipient, hs[h].cleaned)

\* The event of the handler has a message type other than text.
TypedNonText(h) ==
    Normalized(h) /\ hs[h].ev.message_type \notin {NoneV, Str(<<"text">>)}

\* C38: a handler of an event whose type is not text makes no duplicate
\* check and no mark, and every cache entry was marked by a handler of
\* another kind of event; when one audio event with a recipient is
\* delivered twice within RATE_LIMIT_WINDOW, each delivery makes one send
\* of the canned audio reply.
C38_AudioBypassesCache ==
    /\ \A h \in Handlers : TypedNonText(h) => ~hs[h].checked /\ ~hs[h].marked
    /\ \A e \in cache :
          \E h \in Handlers : ~TypedNonText(h) /\ hs[h].marked /\ KeyOf(hs[h]) = e.key
    /\ \A a, b \in Handlers :
          (SameRequest(a, b) /\ Done(a) /\ Done(b) /\ now < RATE_LIMIT_WINDOW
             /\ TypedNonText(a) /\ IsAudio(a) /\ Truthy(hs[a].ev.recipient))
              => /\ Len(hs[b].sent) = 1
                 /\ hs[b].sent[1].text = AudioReply
                 /\ hs[b].sent[1].to = hs[b].ev.recipient

C38_Witness ==
    \E a, b \in Handlers :
        /\ SameRequest(a, b) /\ Done(a) /\ Done(b) /\ a \in hs[b].prior
        /\ now < RATE_LIMIT_WINDOW /\ hs[a].req.body = BodyAudio
        /\ Len(hs[a].sent) = 1 /\ hs[a].sent[1].ok
        /\ Len(hs[b].sent) = 1 /\ hs[b].sent[1].ok /\ hs[b].sent[1].text = AudioReply
        /\ ~hs[b].checked /\ cache = {}

====
